---- MODULE Spec2Model ----
(***************************************************************************)
(* grumpy_clippy: the debounced Watch Loop (src/watcher.rs), the shared    *)
(* report state it publishes to (src/app_state.rs, read by src/ui.rs), the *)
(* Buffered Log Sink (src/logger/buffer.rs, src/logger/core.rs) and the    *)
(* Analysis Orchestrator (src/analyzer/actions.rs) with the engines it    *)
(* calls, the program start-up (src/main.rs, src/cli.rs), the staleness    *)
(* query (src/analyzer/git.rs) and the global logger.                      *)
(*                                                                         *)
(* Time is a discrete clock in seconds.  A step of the Watch Loop takes no *)
(* time except where the code blocks: the bounded receive (recv_timeout),  *)
(* and the synchronous Orchestrator run, which lasts any number of ticks.  *)
(* Strings are sequences of one-character strings.                         *)
(***************************************************************************)
EXTENDS Integers, Sequences, FiniteSets, TLC

(***************************************************************************)
(* Bounds of the model.                                                    *)
(***************************************************************************)
MaxTime == 11
MaxEvents == 2
ShutdownHorizon == 4
MaxEntries == 3
MaxLogTime == 10
MaxNesting == 3
MaxStmts == 3
MaxItems == 3
MaxTextLen == 4
MaxRules == 2

(***************************************************************************)
(* Strings: paths, watch-set entries and ignore patterns.                  *)
(***************************************************************************)
SrcARs == <<"s", "/", "a", ".", "r", "s">>
SrcBToml == <<"s", "/", "b", ".", "t", "o", "m", "l">>
TargetARs == <<"t", "a", "r", "g", "e", "t", "/", "a", ".", "r", "s">>
SrcMakefile == <<"s", "/", "M", "k">>

DotRs == <<".", "r", "s">>
DotToml == <<".", "t", "o", "m", "l">>
TargetSlash == <<"t", "a", "r", "g", "e", "t", "/">>
BadRegex == <<"*">>

(***************************************************************************)
(* Option values: None is the empty sequence, Some(x) is <<x>>.            *)
(***************************************************************************)
None == <<>>
Some(x) == <<x>>

(***************************************************************************)
(* std::path::Path::file_name and Path::extension, as is_relevant uses     *)
(* them.  The file name is the last component of the path; separators and  *)
(* "." components (other than a leading one, which has no file name) are   *)
(* normalised away, and ".." and the root have no file name.  The          *)
(* extension is what follows the last dot of the file name, unless that    *)
(* dot is its first character.                                             *)
(***************************************************************************)
Max(S) == CHOOSE x \in S : \A y \in S : y <= x
Min(S) == CHOOSE x \in S : \A y \in S : x <= y

LastIndexOf(c, s) ==
    LET I == {i \in 1..Len(s) : s[i] = c}
    IN  IF I = {} THEN 0 ELSE Max(I)

\* s[i] is a "." that is a whole component of s
IsDotComponent(s, i) ==
    /\ s[i] = "."
    /\ (i = 1 \/ s[i - 1] = "/")
    /\ (i = Len(s) \/ s[i + 1] = "/")

FileName(p) ==
    LET E == {i \in 1..Len(p) : p[i] # "/" /\ ~IsDotComponent(p, i)}
    IN  IF E = {} THEN None
        ELSE LET c == SubSeq(p, LastIndexOf("/", SubSeq(p, 1, Max(E))) + 1,
                             Max(E))
             IN  IF c = <<".", ".">> THEN None ELSE Some(c)

Extension(p) ==
    LET f == FileName(p)
    IN  IF f = None THEN None
        ELSE LET name == f[1]
                 d == LastIndexOf(".", name)
             IN  IF d = 0 \/ d = 1 THEN None
                 ELSE Some(SubSeq(name, d + 1, Len(name)))

(***************************************************************************)
(* str::trim_start_matches('.')                                            *)
(***************************************************************************)
TrimStartDotsNothing(e) == e
TrimStartDots(e) ==
    LET K == {i \in 1..Len(e) : e[i] # "."}
    IN  IF K = {} THEN <<>> ELSE SubSeq(e, Min(K), Len(e))

(***************************************************************************)
(* is_relevant: the path has an extension and some watch-set entry, with   *)
(* its leading dots trimmed, equals it.                                    *)
(***************************************************************************)
is_relevant(path, allowed_extensions) ==
    LET ext == Extension(path)
    IN  IF ext # None
        THEN \E i \in 1..Len(allowed_extensions) :
                 TrimStartDots(allowed_extensions[i]) = ext[1]
        ELSE FALSE

(***************************************************************************)
(* Regex::new and Regex::is_match for the patterns of the model: a pattern *)
(* is a sequence of literal characters and "." (any character), searched   *)
(* unanchored.  A pattern that starts with the repetition operator "*"     *)
(* does not compile.                                                       *)
(***************************************************************************)
RegexCompiles(pattern) == pattern = <<>> \/ Head(pattern) # "*"

RegexMatchesAt(pattern, s, i) ==
    /\ i + Len(pattern) - 1 <= Len(s)
    /\ \A k \in 1..Len(pattern) : pattern[k] = "." \/ pattern[k] = s[i + k - 1]

RegexIsFullMatch(pattern, s) ==
    Len(pattern) = Len(s) /\ RegexMatchesAt(pattern, s, 1)
RegexIsMatch(pattern, s) ==
    \E i \in 1..(Len(s) + 1) : RegexMatchesAt(pattern, s, i)

(***************************************************************************)
(* shall_be_ignored: any() over the patterns in order, stopping at the     *)
(* first match; compiling a pattern that is not a regular expression       *)
(* panics (the unwrap).  Result: "true", "false" or "panic".               *)
(***************************************************************************)
shall_be_ignored(path, ignore_pattern) ==
    LET Deciding == {k \in 1..Len(ignore_pattern) :
                        \/ ~RegexCompiles(ignore_pattern[k])
                        \/ RegexIsMatch(ignore_pattern[k], path)}
    IN  IF Deciding = {} THEN "false"
        ELSE IF ~RegexCompiles(ignore_pattern[Min(Deciding)]) THEN "panic"
        ELSE "true"

(***************************************************************************)
(* State.                                                                  *)
(***************************************************************************)
VARIABLES
    \* ---- the watch session (src/watcher.rs, src/app_state.rs, src/ui.rs)
    watch_extensions,  \* config.watch_files
    ignore_list,       \* config.ignore_patterns
    verdict,           \* the filters' verdict on each path, see WatchStart
    clock,             \* Instant::now(), in seconds since start_watching
    running,           \* the AtomicBool set by setup_shutdown
    rx,                \* events sent by the watcher callback, not yet received
    pc,                \* where the Watch Loop is
    deadline,          \* when the pending recv_timeout gives up
    last_triggered,
    now,               \* the loop's local `now`
    path,              \* the loop's local `path` (event.paths.first())
    message,           \* the loop's local `message` (the returned report)
    state_message,     \* AppState.message behind the RwLock
    write_locked,      \* the RwLock is held by a writer
    readers,           \* number of read guards alive
    ui_message,        \* the clone draw_speech_bubble holds while painting
    sent,              \* history: number of events delivered
    handled,           \* history: what this iteration did with its event
    invocations,       \* history: every handle_file_changes call
    completed,         \* history: the report the last finished call returned
    stopped,           \* history: when and where the flag was cleared
    \* ---- the extension filter applied to one input
    f_path,
    f_watch,
    f_result,
    \* ---- the Buffered Log Sink (src/logger/buffer.rs, src/logger/core.rs)
    is_json,           \* the line format of the destination
    log_clock,         \* Instant::now() of the flush task, in seconds
    channel_open,      \* some Sender of the channel is alive
    receiver,          \* entries sent and not yet received
    buffer,            \* the flush task's Vec<LogEntry>
    last_flush,
    written,           \* the lines appended to the destination file
    worker_pc,         \* where buffer_worker is
    select_deadline,   \* when the pending select! takes its default arm
    arrived,           \* history: every entry sent, in channel order
    buffered_at,       \* history: when each entry of the buffer was received
    \* ---- one Orchestrator invocation (src/analyzer/actions.rs)
    call,              \* the arguments and what the invocation finds outside
    step,              \* the step handle_file_changes is about to take
    info_messages,
    warning_messages,
    error_messages,
    report,            \* the String handle_file_changes returned
    attempted,         \* history: the steps taken so far, in order
    logged,            \* the entries the invocation handed to log(), in order
    \* ---- the Complexity Engine applied to one parsed file
    e_file,            \* the syn::File
    e_metrics,         \* what analyze_file returned
    \* ---- the Rule Engine applied to one rule list and one source text
    r_rules,
    r_source,
    r_result,          \* what apply_rules returned
    \* ---- program start-up (src/main.rs, src/cli.rs)
    cli_args,          \* CliArgs::parse()
    file_config,       \* the loaded FileConfig, None when it cannot be read
    merged_config,     \* MergedConfig::from_sources(cli, file_config)
    validated,         \* what merged_config.validate() returned
    main_pc,           \* the position of the start-up thread
    \* ---- one staleness query (src/analyzer/git.rs)
    s_now,             \* SystemTime::now(), in seconds since the epoch
    s_hunks,           \* the commit time of each blame hunk, or the error
    s_days,            \* stale_days
    s_stale,           \* what is_file_stale returned
    \* ---- the global logger (src/logger/core.rs, src/main.rs)
    logger_config,     \* the FinalConfig initialize_logger arrives at
    global_logger,     \* LOGGER: None until init_logger stores the Logger
    init_pc,           \* the position of main in initialize_logger
    worker,            \* the flush task: "none" or "alive"
    sender_sent,       \* the entries handed to the channel, in order
    stdout,            \* the lines printed by log(), in order
    log_calls          \* history: each call of log() and how it ended

watchVars ==
    <<watch_extensions, ignore_list, verdict, clock, running, rx, pc, deadline,
      last_triggered, now, path, message, state_message, write_locked,
      readers, ui_message, sent, handled, invocations, completed, stopped>>

filterVars == <<f_path, f_watch, f_result>>

logVars ==
    <<is_json, log_clock, channel_open, receiver, buffer, last_flush,
      written, worker_pc, select_deadline, arrived, buffered_at>>

orchVars ==
    <<call, step, info_messages, warning_messages, error_messages, report,
      attempted, logged>>

engineVars == <<e_file, e_metrics, r_rules, r_source, r_result>>

startupVars ==
    <<cli_args, file_config, merged_config, validated, main_pc>>

staleVars == <<s_now, s_hunks, s_days, s_stale>>

loggerVars ==
    <<logger_config, global_logger, init_pc, worker, sender_sent, stdout,
      log_calls>>

vars ==
    <<watchVars, filterVars, logVars, orchVars, engineVars, startupVars,
      staleVars, loggerVars>>

(***************************************************************************)
(* The watch session.                                                      *)
(***************************************************************************)
debounce_interval == 10
recv_timeout == 1

\* the configurations of the watch sessions explored
Configs ==
    {[watch_files |-> <<DotRs, DotToml>>, ignore_patterns |-> <<TargetSlash>>],
     [watch_files |-> <<DotRs>>, ignore_patterns |-> <<TargetSlash, BadRegex>>]}

\* notify::Event.paths of the events the notification producer delivers
EventPaths ==
    {<<>>, <<SrcARs>>, <<SrcBToml>>, <<SrcMakefile>>, <<TargetARs, SrcARs>>}

\* Strings held in AppState.message: the empty string, a report, or what
\* a read racing with a write would see.
EmptyString == <<>>
Torn == <<"torn">>
NoPath == <<>>

\* The report handle_file_changes returns: it names the changed path, and
\* the reports of different calls are told apart by the call's number.
Report(p, n) == <<"Detected changes in", p, n>>

\* let mut last_triggered = Instant::now() - Duration::from_secs(10);
InitialLastTriggeredUnseeded(start) == start
InitialLastTriggered(start) == start - 10

\* Instant::duration_since saturates at zero
DurationSince(later, earlier) ==
    IF later >= earlier THEN later - earlier ELSE 0

\* now.duration_since(last_triggered) >= debounce_interval
DebounceExpiredPollInterval(n, lt) == DurationSince(n, lt) >= recv_timeout
DebounceExpired(n, lt) == DurationSince(n, lt) >= debounce_interval

\* state.message = message;
StoredMessageKeepsOld(old, new) == IF old = EmptyString THEN new ELSE old
StoredMessage(old, new) == new

\* RwLock: shared access is granted when no writer holds the lock,
\* exclusive access when nobody holds it.
CanReadUnguarded == TRUE
CanRead == ~write_locked
CanWrite == ~write_locked /\ readers = 0

\* What a read of AppState.message yields: the string, unless a writer is
\* replacing it at that moment.
Observe == IF write_locked THEN Torn ELSE state_message

\* while running.load(Ordering::SeqCst)
LoopConditionIgnoresFlag(flag) == TRUE
LoopCondition(flag) == flag

\* The two filters of the loop body, in the order the body applies them:
\* "ignored", "panic", "irrelevant" or "relevant".
FilterVerdict(p, ignore_pattern, allowed_extensions) ==
    LET ignored == shall_be_ignored(p, ignore_pattern)
    IN  IF ignored = "true" THEN "ignored"
        ELSE IF ignored = "panic" THEN "panic"
        ELSE IF ~is_relevant(p, allowed_extensions) THEN "irrelevant"
        ELSE "relevant"

\* The first paths of the events of the model.
FirstPaths == {Head(ps) : ps \in EventPaths \ {<<>>}}

\* The state of a session when start_watching enters its loop at time
\* `start`.  The filters are functions of the path and the configuration
\* only: `verdict` holds their result for each path, as the loop body
\* computes it each time it receives the path.
WatchStart(start) ==
    /\ \E config \in Configs :
          /\ watch_extensions = config.watch_files
          /\ ignore_list = config.ignore_patterns
          /\ verdict = [p \in FirstPaths |->
                          FilterVerdict(p, config.ignore_patterns,
                                        config.watch_files)]
    /\ clock = start
    /\ running = TRUE
    /\ rx = <<>>
    /\ pc = "loop"
    /\ deadline = 0
    /\ last_triggered = InitialLastTriggered(start)
    /\ now = 0
    /\ path = NoPath
    /\ message = EmptyString
    /\ state_message = EmptyString
    /\ write_locked = FALSE
    /\ readers = 0
    /\ ui_message = EmptyString
    /\ sent = 0
    /\ handled = None
    /\ invocations = <<>>
    /\ completed = EmptyString
    /\ stopped = None

FilterIdle ==
    /\ f_path = <<>>
    /\ f_watch = <<>>
    /\ f_result = "idle"

configVars == <<watch_extensions, ignore_list, verdict>>
lockVars == <<state_message, write_locked, readers, ui_message>>
histVars == <<sent, handled, invocations, completed, stopped>>

\* Time passes only while the loop is blocked: in recv_timeout on an empty
\* channel, or inside the synchronous handle_file_changes call.
Tick ==
    /\ clock < MaxTime
    /\ \/ pc = "recv" /\ rx = <<>> /\ clock < deadline
       \/ pc = "run"
    /\ clock' = clock + 1
    /\ UNCHANGED <<configVars, running, rx, pc, deadline, last_triggered,
                   now, path, message, lockVars, histVars, filterVars,
                   logVars, orchVars, engineVars,
                   startupVars, staleVars, loggerVars>>

\* The watcher callback: tx.send(event)
Notify ==
    /\ sent < MaxEvents
    /\ pc \notin {"unstarted", "done", "panicked"}
    /\ \E ps \in EventPaths :
          rx' = Append(rx, [paths |-> ps, at |-> clock])
    /\ sent' = sent + 1
    /\ UNCHANGED <<configVars, clock, running, pc, deadline, last_triggered,
                   now, path, message, lockVars, handled, invocations,
                   completed, stopped, filterVars,
                   logVars, orchVars, engineVars,
                   startupVars, staleVars, loggerVars>>

\* The Ctrl-C handler: r.store(false)
Shutdown ==
    /\ running
    /\ clock < MaxTime
    /\ pc \notin {"done", "panicked"}
    /\ running' = FALSE
    /\ stopped' = Some([at |-> clock, pc |-> pc])
    /\ UNCHANGED <<configVars, clock, rx, pc, deadline, last_triggered, now,
                   path, message, lockVars, sent, handled, invocations,
                   completed, filterVars,
                   logVars, orchVars, engineVars,
                   startupVars, staleVars, loggerVars>>

\* while running.load(Ordering::SeqCst) { rx.recv_timeout(1 s) ...
LoopCheck ==
    /\ pc = "loop"
    /\ IF LoopCondition(running)
       THEN pc' = "recv" /\ deadline' = clock + recv_timeout
       ELSE pc' = "done" /\ UNCHANGED deadline
    /\ handled' = None
    /\ UNCHANGED <<configVars, clock, running, rx, last_triggered, now, path,
                   message, lockVars, sent, invocations, completed, stopped,
                   filterVars,
                   logVars, orchVars, engineVars,
                   startupVars, staleVars, loggerVars>>

\* recv_timeout returned Err(Timeout)
RecvTimeout ==
    /\ pc = "recv"
    /\ rx = <<>>
    /\ clock >= deadline
    /\ pc' = "loop"
    /\ deadline' = 0
    /\ UNCHANGED <<configVars, clock, running, rx, last_triggered,
                   now, path, message, lockVars, histVars, filterVars,
                   logVars, orchVars, engineVars,
                   startupVars, staleVars, loggerVars>>

\* the last path of the event
LastPath(paths) == paths[Len(paths)]

\* event.paths.first(), for an event that has a path
FirstPath(paths) == Head(paths)

\* What the loop body does with a received event, up to the call of
\* handle_file_changes: "nopath", "ignored", "panic", "irrelevant",
\* "debounced" or "triggered".
Outcome(event, t, lt) ==
    IF event.paths = <<>> THEN "nopath"
    ELSE IF verdict[FirstPath(event.paths)] # "relevant"
    THEN verdict[FirstPath(event.paths)]
    ELSE IF ~DebounceExpired(t, lt) THEN "debounced"
    ELSE "triggered"

\* recv_timeout returned Ok(event)
RecvEvent ==
    /\ pc = "recv"
    /\ rx # <<>>
    /\ LET event == Head(rx)
           outcome == Outcome(event, clock, last_triggered)
       IN  /\ rx' = Tail(rx)
           /\ handled' = Some([event |-> event, outcome |-> outcome])
           /\ IF outcome = "triggered"
              THEN /\ pc' = "run"
                   /\ now' = clock
                   /\ path' = FirstPath(event.paths)
                   /\ invocations' =
                        Append(invocations,
                               [start |-> clock, path |-> FirstPath(event.paths),
                                arrived |-> event.at,
                                newest |-> rx[Len(rx)].paths])
              ELSE /\ pc' = IF outcome = "panic" THEN "panicked" ELSE "loop"
                   /\ UNCHANGED <<now, path, invocations>>
    /\ deadline' = 0
    /\ UNCHANGED <<configVars, clock, running, last_triggered,
                   message, lockVars, sent, completed, stopped, filterVars,
                   logVars, orchVars, engineVars,
                   startupVars, staleVars, loggerVars>>

\* handle_file_changes returns its report
RunEnd ==
    /\ pc = "run"
    /\ message' = Report(path, Len(invocations))
    /\ completed' = Report(path, Len(invocations))
    /\ pc' = "lock"
    /\ UNCHANGED <<configVars, clock, running, rx, deadline, last_triggered,
                   now, path, lockVars, sent, handled, invocations, stopped,
                   filterVars,
                   logVars, orchVars, engineVars,
                   startupVars, staleVars, loggerVars>>

\* handle_file_changes panics (the expect calls of analyze_file_complexity,
\* analyze_file_with_custom_rules and load_custom_rules_from_toml): the
\* thread that runs the Watch Loop unwinds
RunPanics ==
    /\ pc = "run"
    /\ pc' = "panicked"
    /\ UNCHANGED <<configVars, clock, running, rx, deadline, last_triggered,
                   now, path, message, lockVars, histVars, filterVars,
                   logVars, orchVars, engineVars,
                   startupVars, staleVars, loggerVars>>

\* let mut state = shared_state.write().unwrap();
WriteLock ==
    /\ pc = "lock"
    /\ CanWrite
    /\ write_locked' = TRUE
    /\ pc' = "store"
    /\ UNCHANGED <<configVars, clock, running, rx, deadline, last_triggered,
                   now, path, message, state_message, readers, ui_message,
                   histVars, filterVars,
                   logVars, orchVars, engineVars,
                   startupVars, staleVars, loggerVars>>

\* the time at which the invocation returned
TriggeredAtReturn(started, returned) == returned

\* last_triggered = now; where now was taken before handle_file_changes
Triggered(started, returned) == started

\* state.message = message; the guard is dropped; last_triggered = now;
WriteStore ==
    /\ pc = "store"
    /\ state_message' = StoredMessage(state_message, message)
    /\ write_locked' = FALSE
    /\ last_triggered' = Triggered(now, clock)
    /\ pc' = "loop"
    /\ now' = 0
    /\ path' = NoPath
    /\ message' = EmptyString
    /\ UNCHANGED <<configVars, clock, running, rx, deadline, readers,
                   ui_message, histVars, filterVars,
                   logVars, orchVars, engineVars,
                   startupVars, staleVars, loggerVars>>

\* The threads that read the shared state: eframe::run_native runs the one
\* ClippyApp on the main thread, and only its draw_speech_bubble reads.
UiThreads == 1

\* draw_speech_bubble: self.state.read().unwrap().message.clone()
ReadLock ==
    /\ readers < UiThreads
    /\ CanRead
    /\ readers' = readers + 1
    /\ ui_message' = Observe
    /\ UNCHANGED <<configVars, clock, running, rx, pc, deadline,
                   last_triggered, now, path, message, state_message,
                   write_locked, histVars, filterVars,
                   logVars, orchVars, engineVars,
                   startupVars, staleVars, loggerVars>>

\* the read guard is dropped; the clone is painted and dropped
ReadUnlock ==
    /\ readers > 0
    /\ readers' = readers - 1
    /\ ui_message' = IF readers = 1 THEN EmptyString ELSE ui_message
    /\ UNCHANGED <<configVars, clock, running, rx, pc, deadline,
                   last_triggered, now, path, message, state_message,
                   write_locked, histVars, filterVars,
                   logVars, orchVars, engineVars,
                   startupVars, staleVars, loggerVars>>

(***************************************************************************)
(* The Buffered Log Sink.                                                  *)
(***************************************************************************)
flush_interval == 5
select_timeout == 1

\* the threads that call log()
Producers == {"watch_loop", "watcher_callback"}

\* serde_json::to_string(&entry) + "\n" or entry.format() + "\n"
Serialize(entry, json) == <<IF json THEN "json" ELSE "txt", entry, "\n">>

RECURSIVE SerializeAll(_, _)
SerializeAll(entries, json) ==
    IF entries = <<>> THEN <<>>
    ELSE <<Serialize(Head(entries), json)>> \o SerializeAll(Tail(entries), json)

\* buffer.push(entry)
PushFront(buf, entry) == <<entry>> \o buf
Push(buf, entry) == Append(buf, entry)

\* what buffer.drain(..) leaves in the buffer
DrainedKeepsEntries(buf) == buf
Drained(buf) == <<>>

\* when the select! that starts at t takes its default arm
SelectDeadlineNever(t) == t + MaxLogTime + 1
SelectDeadline(t) == t + select_timeout

\* a producer's send on the channel returns at once: the channel is
\* unbounded, and the flush task never takes the LOGGER mutex
CanSendWhenReceiving == worker_pc = "select"
CanSend == TRUE

\* last_flush.elapsed() >= Duration::from_secs(5) && !buffer.is_empty()
FlushDue(t, lf, buf) == t - lf >= flush_interval /\ buf # <<>>

\* The state when buffer_worker enters its loop.
LogStart(json) ==
    /\ is_json = json
    /\ log_clock = 0
    /\ channel_open = TRUE
    /\ receiver = <<>>
    /\ buffer = <<>>
    /\ last_flush = 0
    /\ written = <<>>
    /\ worker_pc = "select"
    /\ select_deadline = SelectDeadline(0)
    /\ arrived = <<>>
    /\ buffered_at = <<>>

LogIdle == LogStart(FALSE)


(***************************************************************************)
(* One Orchestrator invocation: handle_file_changes.                       *)
(***************************************************************************)
\* Strings the Orchestrator searches: paths and the linter's stderr.
SrcSlash == <<"s", "r", "c", "/">>
SlashSrc == <<"/", "s", "r", "c">>
Marker == <<"-", "-", ">", " ">>
RelSrcARs == <<"s", "r", "c", "/", "a", ".", "r", "s">>
AbsSrcARs == <<"/", "p", "/", "s", "r", "c", "/", "a", ".", "r", "s">>
NestedSrcARs ==
    <<"/", "s", "r", "c", "/", "p", "/", "s", "r", "c", "/", "a", ".", "r", "s">>
BareARs == <<"a", ".", "r", "s">>
RelSrcBRs == <<"s", "r", "c", "/", "b", ".", "r", "s">>
Colon1 == <<":", "1">>

\* str::contains
Contains(hay, needle) ==
    \E i \in 1..(Len(hay) - Len(needle) + 1) :
        SubSeq(hay, i, i + Len(needle) - 1) = needle

\* str::split_once: the parts around the first occurrence of the delimiter
SplitOnce(s, delimiter) ==
    IF ~Contains(s, delimiter) THEN None
    ELSE LET i == Min({j \in 1..(Len(s) - Len(delimiter) + 1) :
                         SubSeq(s, j, j + Len(delimiter) - 1) = delimiter})
         IN  Some(<<SubSeq(s, 1, i - 1),
                    SubSeq(s, i + Len(delimiter), Len(s))>>)

\* path.split_once("src/").map(|(_, rest)| format!("src/{}", rest))
extract_path_from_src(p) ==
    IF SplitOnce(p, SrcSlash) = None THEN None
    ELSE Some(SrcSlash \o SplitOnce(p, SrcSlash)[1][2])

\* path.split_once("/src").map(|(repo, _)| repo)
extract_repository_path(p) ==
    IF SplitOnce(p, SlashSrc) = None THEN None
    ELSE Some(SplitOnce(p, SlashSrc)[1][1])

match_path(p, std_err) ==
    IF extract_path_from_src(p) # None
    THEN \/ Contains(std_err, Marker \o extract_path_from_src(p)[1])
         \/ Contains(std_err, Marker \o p)
    ELSE FALSE

\* `usize as u8`
AsU8(n) == n % 256

\* A buffer is a string: a sequence of pieces, each the text of one message
\* (which holds no line break) or a line break.  Each piece remembers the
\* step that pushed it.
Piece(st, text, args) == <<[step |-> st, text |-> text, args |-> args]>>
Msg(st, text) == Piece(st, text, <<>>)
NewLine(st) == Piece(st, "\n", <<>>)
IsNewLine(piece) == piece.text = "\n"

\* str::lines of a non-empty string
RECURSIVE Lines(_)
Lines(s) ==
    IF s = <<>> THEN <<>>
    ELSE IF \A i \in 1..Len(s) : ~IsNewLine(s[i]) THEN <<s>>
    ELSE LET i == Min({j \in 1..Len(s) : IsNewLine(s[j])})
         IN  <<SubSeq(s, 1, i - 1)>> \o Lines(SubSeq(s, i + 1, Len(s)))

\* The order of the steps of handle_file_changes; "start" is the creation
\* of the buffers.
StepRank ==
    [start |-> 0, fmt |-> 1, clippy |-> 2, complexity |-> 3, rules |-> 4,
     git |-> 5]
NextStep ==
    [fmt |-> "clippy", clippy |-> "complexity", complexity |-> "rules",
     rules |-> "git", git |-> "return"]

\* ---- what an invocation is given and what it finds
\* the changed file as the watcher reports it: relative, under the project
\* /p, under the project /src/p, and a path outside any src directory
OrchPaths == {RelSrcARs, AbsSrcARs, NestedSrcARs, BareARs}

\* how a spawned command ends; "spawn_error" is the io::Error of run_cmd
CmdOutcomes == {"success", "failure", "spawn_error"}

\* the linter's stderr when it fails
Stderrs ==
    {Marker \o RelSrcARs \o Colon1,
     Marker \o RelSrcBRs \o Colon1,
     Marker \o BareARs \o Colon1}

ClippyRuns ==
    {[outcome |-> "success", stderr |-> <<>>],
     [outcome |-> "spawn_error", stderr |-> <<>>]}
    \cup {[outcome |-> "failure", stderr |-> e] : e \in Stderrs}

\* FunctionComplexity: the two metrics the Orchestrator reads
Fn(cc, loc) == [cyclomatic_complexity |-> cc, lines_of_code |-> loc]

\* GrumpinessLevel
GrumpinessLevel == {"Mild", "Sarcastic", "Rude"}

\* the text of the changed file and the word a forbid_word rule looks for
NoTodoText == <<"x">>
TodoText == <<"T", "O", "D", "O">>
TodoWordText == <<"T", "o", "D", "o", "x", "o">>
Word == <<"x", "o">>

\* the changed file: unreadable, not parsable, or parsed into its
\* functions' metrics; text is what fs::read_to_string returns
Sources ==
    {[kind |-> "unreadable", metrics |-> <<>>, text |-> <<>>],
     [kind |-> "syntax_error", metrics |-> <<>>, text |-> NoTodoText],
     [kind |-> "parsed", metrics |-> <<>>, text |-> NoTodoText],
     [kind |-> "parsed", metrics |-> <<Fn(12, 3)>>, text |-> NoTodoText],
     [kind |-> "parsed", metrics |-> <<Fn(1, 40), Fn(12, 40)>>,
      text |-> TodoWordText],
     [kind |-> "parsed", metrics |-> <<Fn(268, 300)>>, text |-> TodoText]}

\* RuleConfig
Rule(name, enabled, option) ==
    [name |-> name, enabled |-> enabled, option |-> option]

\* the file at custom_rules_path
RuleFiles ==
    {[kind |-> k, rules |-> <<>>] :
        k \in {"missing", "unreadable", "invalid_toml", "no_rules_array",
               "malformed_rule"}}
    \cup {[kind |-> "rules", rules |-> rs] :
            rs \in {<<>>,
                    <<Rule("no_todo_comments", TRUE, None)>>,
                    <<Rule("no_todo_comments", TRUE, None),
                      Rule("forbid_word", TRUE, Some(Word))>>,
                    <<Rule("no_todo_comments", TRUE, None),
                      Rule("max_depth", TRUE, None)>>,
                    <<Rule("max_depth", FALSE, None),
                      Rule("forbid_word", TRUE, Some(Word))>>}}

\* MergedConfig.max_complexity and .max_function_size
Thresholds ==
    {[max_complexity |-> 10, max_function_size |-> 32],
     [max_complexity |-> 32, max_function_size |-> 32]}

\* what the repository answers to the two metadata queries
GitAnswers ==
    {[discover |-> "error", stale |-> "false", author |-> "none"]}
    \cup {[discover |-> "ok", stale |-> s, author |-> a] :
            s \in {"true", "false", "error"},
            a \in {"some", "none", "error"}}

\* The call in start_watching: the third argument, max_function_size, is
\* given config.max_complexity, and the fourth, max_cyclomatic_complexity,
\* is given config.max_function_size.
WatcherCall(p, config, level) ==
    [path |-> p,
     grumpiness_level |-> level,
     max_function_size |-> config.max_complexity,
     max_cyclomatic_complexity |-> config.max_function_size]

\* an invocation: its arguments and what it finds when it runs
Call(p, t, l, f, c, s, r, g) ==
    [args |-> WatcherCall(p, t, l), config |-> t, fmt |-> f, clippy |-> c,
     source |-> s, rule_file |-> r, git |-> g]

\* ---- the messages whose wording the grumpiness level selects: each is
\* the text the function returns for its arguments
clippy_success(level) == Piece("clippy", "clippy::success", <<level>>)
\* a failure message that only the rude level words
clippy_failure_rude_only(level) ==
    IF level = "Rude" THEN Piece("clippy", "clippy::failure", <<level>>)
    ELSE <<>>
clippy_failure(level) == Piece("clippy", "clippy::failure", <<level>>)
complexity_warning(level, name, actual, max) ==
    Piece("complexity", "complexity::warning", <<level, name, actual, max>>)
function_size_warning(level, name, actual, max) ==
    Piece("complexity", "function_size::warning",
          <<level, name, actual, max>>)
git_is_stale_info(level) == Piece("git", "git_is_stale::info", <<level>>)
git_most_frequent_author_info(level, author) ==
    Piece("git", "git_most_frequent_author::info", <<level, author>>)

\* ---- the locals of handle_file_changes: the three buffers, the entries
\* handed to log() so far, and whether a step panicked
Locals(info, warning, error, entries) ==
    [info |-> info, warning |-> warning, error |-> error,
     logged |-> entries, panic |-> FALSE]

\* handle_file_changes is entered: the three buffers are created
Entered ==
    Locals(Msg("start", "Detected changes in") \o NewLine("start"),
           <<>>, <<>>, <<>>)

\* log(level, message)
Entry(level, text) == <<[level |-> level, message |-> text]>>

\* ---- the steps
\* run_cmd: Ok((status, stderr)) once the process was spawned and waited
\* for, whatever its exit status; Err when spawning failed
RunCmdIsOk(outcome) == outcome # "spawn_error"

\* match run_fmt(path)
FmtStep(c, b) ==
    IF RunCmdIsOk(c.fmt)
    THEN [b EXCEPT !.info = @ \o Msg("fmt", "cargo fmt successful!")
                             \o NewLine("fmt")]
    ELSE [b EXCEPT !.error = @ \o Msg("fmt", "Failed to run 'cargo fmt'")
                              \o NewLine("fmt")]

\* match run_clippy()
ClippyStep(c, b) ==
    IF RunCmdIsOk(c.clippy.outcome)
    THEN IF c.clippy.outcome = "success"
         THEN [b EXCEPT !.info = @ \o clippy_success(c.args.grumpiness_level)]
         ELSE IF match_path(c.args.path, c.clippy.stderr)
         THEN [b EXCEPT
                 !.warning = @ \o clippy_failure(c.args.grumpiness_level),
                 !.logged = @ \o Entry("Warn",
                     Msg("clippy", "extract_clippy_error_for_path")
                     \o NewLine("clippy"))]
         ELSE b
    ELSE [b EXCEPT !.error = @ \o Msg("clippy", "Failed to run 'clippy'")
                              \o NewLine("clippy")]

\* the lines analyze_file_complexity pushes for the metrics from the i-th on
RECURSIVE ComplexityMessages(_, _, _, _, _)
ComplexityMessages(metrics, i, level, max_function_size, max_cyclomatic_complexity) ==
    IF i > Len(metrics) THEN <<>>
    ELSE LET m == metrics[i]
         IN  (IF AsU8(m.cyclomatic_complexity) > max_cyclomatic_complexity
              THEN complexity_warning(level, i, m.cyclomatic_complexity,
                                      max_cyclomatic_complexity)
                   \o NewLine("complexity")
              ELSE <<>>)
             \o (IF AsU8(m.lines_of_code) > max_function_size
                 THEN function_size_warning(level, i, m.lines_of_code,
                                            max_function_size)
                      \o NewLine("complexity")
                 ELSE <<>>)
             \o ComplexityMessages(metrics, i + 1, level, max_function_size,
                                   max_cyclomatic_complexity)

\* analyze_file_complexity: "panic" when the file cannot be read or parsed
\* (the two expect calls), else Ok((successful, messages))
analyze_file_complexity(source, level, max_size, max_complexity) ==
    IF source.kind # "parsed" THEN [result |-> "panic", messages |-> <<>>]
    ELSE LET messages == ComplexityMessages(source.metrics, 1, level,
                                            max_size, max_complexity)
         IN  [result |-> IF messages = <<>> THEN "passed" ELSE "failed",
              messages |-> messages]

\* match analyze_file_complexity(path, grumpiness_level, max_function_size,
\*                               max_cyclomatic_complexity)
ComplexityStep(c, b) ==
    LET r == analyze_file_complexity(c.source, c.args.grumpiness_level,
                                     c.args.max_function_size,
                                     c.args.max_cyclomatic_complexity)
    IN  IF r.result = "panic" THEN [b EXCEPT !.panic = TRUE]
        ELSE [b EXCEPT !.warning = @ \o r.messages]

\* ---- the Rule Engine
\* char::to_lowercase of the characters the texts are made of
\* no change of letter case
ToLowercaseNothing(s) == s

ToLowercase(s) ==
    [i \in 1..Len(s) |->
        CASE s[i] = "T" -> "t"
          [] s[i] = "O" -> "o"
          [] s[i] = "D" -> "d"
          [] OTHER -> s[i]]

\* source.to_lowercase().contains("todo")
no_todo_comments(source) ==
    Contains(ToLowercase(source), <<"t", "o", "d", "o">>)

\* source.contains(word)
\* a search that ignores the letter case
contains_forbidden_word_any_case(source, word) ==
    Contains(ToLowercase(source), ToLowercase(word))

contains_forbidden_word(source, word) == Contains(source, word)

\* generate_message: "Rule violation: {}\nmessage {:?}"
generate_message(rule) ==
    Msg("rules", "Rule violation: " \o rule) \o NewLine("rules")
    \o Msg("rules", "message")

\* if !rule.enabled { continue; }
\* no rule is skipped
IsSkippedNever(rule) == FALSE

IsSkipped(rule) == ~rule.enabled

\* successful = false; messages.push(generate_message(rule.name, ...))
\* a violation that is reported but leaves successful as it was
ViolationKeepsSuccessful(acc, rule) ==
    [acc EXCEPT !.messages = Append(@, generate_message(rule.name))]

Violation(acc, rule) ==
    [acc EXCEPT !.successful = FALSE,
                !.messages = Append(@, generate_message(rule.name))]

\* Err(format!("Unknown rule: {}", rule.name))?: apply_rules returns the
\* error, which holds none of the messages collected
\* an unknown rule that is passed over
UnknownRuleIgnored(acc) == acc

UnknownRule(acc) ==
    [acc EXCEPT !.ok = FALSE, !.successful = FALSE, !.messages = <<>>]

\* the loop of apply_rules from the i-th rule on; acc holds successful and
\* messages, and (as history) the rules whose match arm was entered
RECURSIVE ApplyFrom(_, _, _, _)
ApplyFrom(rules, i, source, acc) ==
    IF i > Len(rules) THEN acc
    ELSE LET rule == rules[i]
             seen == [acc EXCEPT !.evaluated = Append(@, rule)]
         IN  IF IsSkipped(rule) THEN ApplyFrom(rules, i + 1, source, acc)
             ELSE IF rule.name = "no_todo_comments"
             THEN ApplyFrom(rules, i + 1, source,
                            IF no_todo_comments(source)
                            THEN Violation(seen, rule) ELSE seen)
             ELSE IF rule.name = "forbid_word"
             THEN ApplyFrom(rules, i + 1, source,
                            IF /\ rule.option # None
                               /\ contains_forbidden_word(source,
                                                          rule.option[1])
                            THEN Violation(seen, rule) ELSE seen)
             ELSE UnknownRule(seen)

\* apply_rules: Ok((successful, messages)) or Err
apply_rules(rules, source) ==
    ApplyFrom(rules, 1, source,
              [ok |-> TRUE, successful |-> TRUE, messages |-> <<>>,
               evaluated |-> <<>>])

\* messages.join("\n")
RECURSIVE Join(_)
Join(messages) ==
    IF messages = <<>> THEN <<>>
    ELSE IF Len(messages) = 1 THEN messages[1]
    ELSE messages[1] \o NewLine("rules") \o Join(Tail(messages))

\* load_custom_rules_from_toml: Ok(None) for a path that does not exist,
\* Err for a file that cannot be read, a panic (expect, index) for content
\* that is not a well-formed rule list, else Ok(Some(rules))
\* loading without the test of Path::exists: reading the file fails
load_custom_rules_unchecked(rule_file) ==
    CASE rule_file.kind \in {"missing", "unreadable"} -> "error"
      [] rule_file.kind \in {"invalid_toml", "no_rules_array",
                             "malformed_rule"} -> "panic"
      [] OTHER -> "rules"

load_custom_rules_from_toml(rule_file) ==
    CASE rule_file.kind = "missing" -> "none"
      [] rule_file.kind = "unreadable" -> "error"
      [] rule_file.kind \in {"invalid_toml", "no_rules_array",
                             "malformed_rule"} -> "panic"
      [] OTHER -> "rules"

\* analyze_file_with_custom_rules; entries are what it hands to log()
analyze_file_with_custom_rules(source, rule_file) ==
    LET loaded == load_custom_rules_from_toml(rule_file)
        applied == apply_rules(rule_file.rules, source.text)
        Result(r, m, e) == [result |-> r, messages |-> m, entries |-> e]
    IN  IF source.kind = "unreadable" \/ loaded = "panic"
        THEN Result("panic", <<>>, <<>>)
        ELSE IF loaded = "none"
        THEN Result("passed", <<>>,
                    Entry("Info", Msg("rules", "No custom rules found, skipping custom rules analysis.")))
        ELSE IF loaded = "error" \/ ~applied.ok
        THEN Result("error", <<>>, <<>>)
        ELSE Result(IF applied.successful THEN "passed" ELSE "failed",
                    applied.messages, <<>>)

\* match analyze_file_with_custom_rules(path, custom_rules_path)
RulesStep(c, b) ==
    LET r == analyze_file_with_custom_rules(c.source, c.rule_file)
    IN  IF r.result = "panic" THEN [b EXCEPT !.panic = TRUE]
        ELSE [b EXCEPT
                !.warning = IF r.result = "failed"
                            THEN @ \o Join(r.messages) ELSE @,
                !.error = IF r.result = "error"
                          THEN @ \o Msg("rules", "Failed to analyse file")
                                 \o NewLine("rules")
                          ELSE @,
                !.logged = @ \o r.entries]

\* GitInspector::new: Err for a path without "/src", else what
\* Repository::discover answers
GitInspectorNew(p, git) ==
    IF extract_repository_path(p) = None THEN "error" ELSE git.discover

\* match tgit_inspector.is_file_stale(path, 7)
StaleQuery(c, b) ==
    CASE c.git.stale = "true" ->
            [b EXCEPT !.info = @ \o git_is_stale_info(
                                       c.args.grumpiness_level)]
      [] c.git.stale = "false" -> b
      [] OTHER ->
            [b EXCEPT !.error = @ \o Msg("git",
                                         "Failed to check if file is stale")
                                  \o NewLine("git")]

\* author.as_deref().unwrap_or("")
AuthorName(author) == IF author = "some" THEN "alice" ELSE ""

\* match tgit_inspector.most_frequent_author(path)
\* the author query is made only when the staleness query succeeded
AuthorQueryAfterSuccess(c, b) ==
    IF c.git.stale = "error" THEN b
    ELSE IF c.git.author # "error"
    THEN [b EXCEPT !.info = @ \o git_most_frequent_author_info(
                                     c.args.grumpiness_level,
                                     AuthorName(c.git.author))]
    ELSE [b EXCEPT !.error = @ \o Msg("git",
                                      "Failed to get most frequent author")
                               \o NewLine("git")]

AuthorQuery(c, b) ==
    IF c.git.author # "error"
    THEN [b EXCEPT !.info = @ \o git_most_frequent_author_info(
                                     c.args.grumpiness_level,
                                     AuthorName(c.git.author))]
    ELSE [b EXCEPT !.error = @ \o Msg("git",
                                      "Failed to get most frequent author")
                               \o NewLine("git")]

\* match git::GitInspector::new(path)
GitStep(c, b) ==
    IF GitInspectorNew(c.args.path, c.git) = "ok"
    THEN AuthorQuery(c, StaleQuery(c, b))
    ELSE [b EXCEPT !.error = @ \o Msg("git", "Failed to create GitInspector")
                              \o NewLine("git")]

\* for line in buffer.lines() { info!/warning!/error!("{}", line) }
MirrorLines(level, buf) ==
    [i \in 1..Len(Lines(buf)) |->
        [level |-> level, message |-> Lines(buf)[i]]]

\* the three loops that hand the buffers' lines to the log
Mirror(b) ==
    [b EXCEPT !.logged = @ \o MirrorLines("Info", b.info)
                           \o MirrorLines("Warn", b.warning)
                           \o MirrorLines("Error", b.error)]

\* what a step makes of the locals
Effect(st, c, b) ==
    CASE st = "fmt" -> FmtStep(c, b)
      [] st = "clippy" -> ClippyStep(c, b)
      [] st = "complexity" -> ComplexityStep(c, b)
      [] st = "rules" -> RulesStep(c, b)
      [] st = "git" -> GitStep(c, b)
      [] st = "return" -> Mirror(b)

\* ---- the invocation as a state machine
OrchStart(c) ==
    /\ call = c
    /\ step = "fmt"
    /\ info_messages = Entered.info
    /\ warning_messages = Entered.warning
    /\ error_messages = Entered.error
    /\ logged = Entered.logged
    /\ report = None
    /\ attempted = <<>>

\* an invocation for the specifications that are about another component
IdleCall ==
    Call(RelSrcARs, [max_complexity |-> 10, max_function_size |-> 32],
         "Mild", "success", [outcome |-> "success", stderr |-> <<>>],
         [kind |-> "parsed", metrics |-> <<>>, text |-> NoTodoText],
         [kind |-> "missing", rules |-> <<>>],
         [discover |-> "ok", stale |-> "false", author |-> "some"])

OrchIdle == OrchStart(IdleCall)

\* the locals as the state holds them
Current ==
    Locals(info_messages, warning_messages, error_messages, logged)

\* the step st is taken: the locals become what the step makes of them
Take(st) ==
    LET b == Effect(st, call, Current)
    IN  /\ info_messages' = b.info
        /\ warning_messages' = b.warning
        /\ error_messages' = b.error
        /\ logged' = b.logged
        /\ step' = IF b.panic THEN "panicked" ELSE NextStep[st]
        /\ attempted' = Append(attempted, st)
        /\ UNCHANGED <<call, report, watchVars, filterVars, logVars,
                       engineVars, startupVars, staleVars, loggerVars>>

StepFmt == step = "fmt" /\ Take("fmt")

StepClippy == step = "clippy" /\ Take("clippy")

StepComplexity == step = "complexity" /\ Take("complexity")

StepRules == step = "rules" /\ Take("rules")

StepGit == step = "git" /\ Take("git")

\* the lines are mirrored to the log; then
\* info_messages + &warning_messages + &error_messages
StepReturn ==
    /\ step = "return"
    /\ logged' = Mirror(Current).logged
    /\ report' = Some(info_messages \o warning_messages \o error_messages)
    /\ step' = "done"
    /\ UNCHANGED <<call, info_messages, warning_messages, error_messages,
                   attempted, watchVars, filterVars, logVars, engineVars,
                   startupVars, staleVars, loggerVars>>

\* No staleness query, and a logger that is not looked at, for the
\* specifications that are about another component.
StaleIdle ==
    /\ s_now = 0
    /\ s_hunks = <<>>
    /\ s_days = 0
    /\ s_stale = None

LoggerIdle ==
    /\ logger_config = None
    /\ global_logger = None
    /\ init_pc = "idle"
    /\ worker = "none"
    /\ sender_sent = <<>>
    /\ stdout = <<>>
    /\ log_calls = <<>>

\* The start-up thread, for the specifications that begin with the watch
\* session already running or are about another component.
StartupIdle ==
    /\ cli_args = None
    /\ file_config = None
    /\ merged_config = None
    /\ validated = None
    /\ main_pc = "idle"

\* A watch session that has just started, for the specifications that are
\* about another component.
WatchIdle == WatchStart(0) /\ watch_extensions = <<DotRs, DotToml>>

(***************************************************************************)
(* The Complexity Engine.  A function body is a sequence of statements; a  *)
(* syntax node holds its kind and, as children, the expressions, blocks    *)
(* and arms it is made of.  "call" stands for every expression that is     *)
(* neither a branching construct, a closure nor a return; "fn" is a        *)
(* function item declared in a body.                                       *)
(***************************************************************************)
Node(kind, children) == [kind |-> kind, children |-> children]
Leaf(kind) == Node(kind, <<>>)

\* Expr::If(_) | Expr::Match(_) | Expr::While(_) | Expr::ForLoop(_)
\* | Expr::Loop(_)
\* the branching constructs without Expr::Loop
BranchingWithoutLoop == {"if", "match", "while", "for"}

Branching == {"if", "match", "while", "for", "loop"}

\* Expr::Closure(_) => return
\* no expression whose internals are skipped
SkippedNone == {}

Skipped == {"closure"}

Kinds == Branching \cup {"closure", "return", "call", "fn"}

\* ComplexityVisitor as analyze_function creates it
NewVisitor ==
    [cyclomatic_complexity |-> 1, max_depth |-> 0, current_depth |-> 0,
     return_count |-> 0]

\* the depth is left as the construct's body left it
LeaveKeepsDepth(v) == v

\* self.current_depth -= 1; after the construct has been traversed
LeaveConstruct(v) == [v EXCEPT !.current_depth = @ - 1]

\* visit_expr on an expression; the default traversal (syn::visit) on its
\* children and on a function item met in a block, whose body it enters
RECURSIVE visit_expr(_, _), VisitAll(_, _, _)
visit_expr(v, node) ==
    IF node.kind \in Branching
    THEN LET entered ==
                 [v EXCEPT !.cyclomatic_complexity = @ + 1,
                           !.current_depth = @ + 1,
                           !.max_depth = Max({@, v.current_depth + 1})]
             left == VisitAll(entered, node.children, 1)
         IN  LeaveConstruct(left)
    ELSE IF node.kind \in Skipped THEN v
    ELSE IF node.kind = "return"
    THEN VisitAll([v EXCEPT !.return_count = @ + 1], node.children, 1)
    ELSE VisitAll(v, node.children, 1)

VisitAll(v, nodes, i) ==
    IF i > Len(nodes) THEN v
    ELSE VisitAll(visit_expr(v, nodes[i]), nodes, i + 1)

\* Item::Fn and the items that are not functions
FnItem(name, stmts) ==
    [kind |-> "fn", name |-> name, stmts |-> stmts, items |-> <<>>]
OtherItem(kind, name, items) ==
    [kind |-> kind, name |-> name, stmts |-> <<>>, items |-> items]

analyze_function(func) ==
    LET visitor == VisitAll(NewVisitor, func.stmts, 1)
    IN  [name |-> func.name,
         lines_of_code |-> Len(func.stmts),
         cyclomatic_complexity |-> visitor.cyclomatic_complexity,
         max_nesting_depth |-> visitor.max_depth,
         return_count |-> visitor.return_count]

\* file.items.iter().filter_map(..) from the i-th item on
RECURSIVE AnalyzeFrom(_, _)
AnalyzeFrom(items, i) ==
    IF i > Len(items) THEN <<>>
    ELSE (IF items[i].kind = "fn" THEN <<analyze_function(items[i])>>
          ELSE <<>>)
         \o AnalyzeFrom(items, i + 1)

\* an entry for every item, whatever its kind
analyze_file_every_item(file) ==
    [i \in 1..Len(file) |-> analyze_function(file[i])]

analyze_file(file) == AnalyzeFrom(file, 1)

\* ---- the files explored
SeqsUpTo(S, n) == UNION {[1..k -> S] : k \in 0..n}

\* a node in a node in a node ..., up to n deep
RECURSIVE Chains(_)
Chains(n) ==
    IF n = 0 THEN {}
    ELSE {Leaf(k) : k \in Kinds}
         \cup {Node(k, <<c>>) : k \in Kinds, c \in Chains(n - 1)}

AllBranching ==
    <<Leaf("if"), Leaf("match"), Leaf("while"), Leaf("for"), Leaf("loop")>>

Bodies ==
    {<<c>> : c \in Chains(MaxNesting)}
    \cup SeqsUpTo({Leaf(k) : k \in Branching \cup {"call"}}, MaxStmts)
    \cup {<<Node(k, <<Leaf(a), Leaf(b)>>)>> : k, a, b \in Kinds}
    \cup {<<Node(k, <<Leaf(a)>>), Leaf(b)>> : k, a, b \in Kinds}
    \cup {<<Node(k, AllBranching)>> : k \in Kinds}

ItemSamples ==
    {FnItem("f", <<Leaf("if")>>),
     FnItem("g", <<>>),
     OtherItem("impl", "S", <<FnItem("m", <<Leaf("loop")>>)>>),
     OtherItem("mod", "inner", <<FnItem("h", <<Leaf("match")>>)>>),
     OtherItem("struct", "S", <<>>)}

Files ==
    {<<FnItem("f", b)>> : b \in Bodies} \cup SeqsUpTo(ItemSamples, MaxItems)

\* ---- the engine applied to one file
ComplexityInit ==
    /\ WatchIdle
    /\ FilterIdle
    /\ LogIdle
    /\ OrchIdle
    /\ StartupIdle
    /\ StaleIdle
    /\ LoggerIdle
    /\ e_file \in Files
    /\ e_metrics = None
    /\ r_rules = <<>>
    /\ r_source = <<>>
    /\ r_result = None

AnalyzeFile ==
    /\ e_metrics = None
    /\ e_metrics' = Some(analyze_file(e_file))
    /\ UNCHANGED <<e_file, r_rules, r_source, r_result, watchVars,
                   filterVars, logVars, orchVars,
                   startupVars, staleVars, loggerVars>>

ComplexityNext == AnalyzeFile

ComplexitySpec == ComplexityInit /\ [][ComplexityNext]_vars

(***************************************************************************)
(* The Rule Engine applied to one rule list and one source text.           *)
(***************************************************************************)
TextChars == {"t", "T", "o", "O", "d", "D", "x"}
Texts == SeqsUpTo(TextChars, MaxTextLen)

RuleSamples ==
    {Rule(n, e, None) :
        n \in {"no_todo_comments", "forbid_word", "max_depth"},
        e \in BOOLEAN}
    \cup {Rule("forbid_word", e, Some(Word)) : e \in BOOLEAN}
RuleLists == SeqsUpTo(RuleSamples, MaxRules)

RuleInit ==
    /\ WatchIdle
    /\ FilterIdle
    /\ LogIdle
    /\ OrchIdle
    /\ StartupIdle
    /\ StaleIdle
    /\ LoggerIdle
    /\ \/ /\ r_source \in Texts
          /\ r_rules \in {<<Rule("no_todo_comments", TRUE, None)>>,
                          <<Rule("no_todo_comments", FALSE, None)>>,
                          <<Rule("forbid_word", TRUE, Some(Word))>>}
       \/ /\ r_source \in {<<>>, NoTodoText, TodoText, TodoWordText}
          /\ r_rules \in RuleLists
    /\ r_result = None
    /\ e_file = <<>>
    /\ e_metrics = None

ApplyRules ==
    /\ r_result = None
    /\ r_result' = Some(apply_rules(r_rules, r_source))
    /\ UNCHANGED <<r_rules, r_source, e_file, e_metrics, watchVars,
                   filterVars, logVars, orchVars,
                   startupVars, staleVars, loggerVars>>

RuleNext == ApplyRules

RuleSpec == RuleInit /\ [][RuleNext]_vars

\* No engine has been given anything, for the specifications that are
\* about another component.
EngineIdle ==
    /\ e_file = <<>>
    /\ e_metrics = None
    /\ r_rules = <<>>
    /\ r_source = <<>>
    /\ r_result = None

Init ==
    /\ WatchStart(0)
    /\ FilterIdle
    /\ LogIdle
    /\ OrchIdle
    /\ EngineIdle
    /\ StartupIdle
    /\ StaleIdle
    /\ LoggerIdle

Next ==
    \/ Tick
    \/ Notify
    \/ Shutdown
    \/ LoopCheck
    \/ RecvTimeout
    \/ RecvEvent
    \/ RunEnd
    \/ RunPanics
    \/ WriteLock
    \/ WriteStore
    \/ ReadLock
    \/ ReadUnlock

Spec == Init /\ [][Next]_vars

\* The flush task is blocked in select! on an open, empty channel.
LogTick ==
    /\ log_clock < MaxLogTime
    /\ worker_pc = "select"
    /\ receiver = <<>>
    /\ channel_open
    /\ log_clock < select_deadline
    /\ log_clock' = log_clock + 1
    /\ UNCHANGED <<is_json, channel_open, receiver, buffer, last_flush,
                   written, worker_pc, select_deadline, arrived, buffered_at,
                   watchVars, filterVars, orchVars, engineVars,
                   startupVars, staleVars, loggerVars>>

\* log(): buffer.sender.send(entry) on the unbounded channel
Send ==
    /\ channel_open
    /\ Len(arrived) < MaxEntries
    /\ CanSend
    /\ \E p \in Producers :
          LET entry == [from |-> p, n |-> Len(arrived) + 1]
          IN  /\ receiver' = Append(receiver, entry)
              /\ arrived' = Append(arrived, entry)
    /\ UNCHANGED <<is_json, log_clock, channel_open, buffer, last_flush,
                   written, worker_pc, select_deadline, buffered_at,
                   watchVars, filterVars, orchVars, engineVars,
                   startupVars, staleVars, loggerVars>>

\* every Sender is dropped
CloseChannel ==
    /\ channel_open
    /\ channel_open' = FALSE
    /\ UNCHANGED <<is_json, log_clock, receiver, buffer, last_flush,
                   written, worker_pc, select_deadline, arrived, buffered_at,
                   watchVars, filterVars, orchVars, engineVars,
                   startupVars, staleVars, loggerVars>>

\* select!: recv(receiver) -> Ok(entry)
WorkerRecv ==
    /\ worker_pc = "select"
    /\ receiver # <<>>
    /\ buffer' = Push(buffer, Head(receiver))
    /\ receiver' = Tail(receiver)
    /\ buffered_at' = Append(buffered_at, log_clock)
    /\ worker_pc' = "check"
    /\ UNCHANGED <<is_json, log_clock, channel_open, last_flush, written,
                   select_deadline, arrived, watchVars, filterVars, orchVars, engineVars,
                   startupVars, staleVars, loggerVars>>

\* select!: recv(receiver) -> Err(_): the channel is empty and disconnected;
\* break, the thread ends with what the buffer still holds
WorkerDisconnected ==
    /\ worker_pc = "select"
    /\ receiver = <<>>
    /\ ~channel_open
    /\ worker_pc' = "exit"
    /\ UNCHANGED <<is_json, log_clock, channel_open, receiver, buffer,
                   last_flush, written, select_deadline, arrived, buffered_at,
                   watchVars, filterVars, orchVars, engineVars,
                   startupVars, staleVars, loggerVars>>

\* select!: default(1 s)
WorkerTimeout ==
    /\ worker_pc = "select"
    /\ receiver = <<>>
    /\ channel_open
    /\ log_clock >= select_deadline
    /\ worker_pc' = "check"
    /\ UNCHANGED <<is_json, log_clock, channel_open, receiver, buffer,
                   last_flush, written, select_deadline, arrived, buffered_at,
                   watchVars, filterVars, orchVars, engineVars,
                   startupVars, staleVars, loggerVars>>

\* the flush test after select!: flush, or go back to select!
FlushCheck ==
    /\ worker_pc = "check"
    /\ IF FlushDue(log_clock, last_flush, buffer)
       THEN /\ worker_pc' = "write"
            /\ UNCHANGED select_deadline
       ELSE /\ worker_pc' = "select"
            /\ select_deadline' = SelectDeadline(log_clock)
    /\ UNCHANGED <<is_json, log_clock, channel_open, receiver, buffer,
                   last_flush, written, arrived, buffered_at, watchVars,
                   filterVars, orchVars, engineVars,
                   startupVars, staleVars, loggerVars>>

\* the flush: every buffered entry is serialized and written, the writer
\* is flushed, last_flush = Instant::now(), and the next select! begins
FlushWrite ==
    /\ worker_pc = "write"
    /\ written' = written \o SerializeAll(buffer, is_json)
    /\ buffer' = Drained(buffer)
    /\ last_flush' = log_clock
    /\ worker_pc' = "select"
    /\ select_deadline' = SelectDeadline(log_clock)
    /\ buffered_at' = <<>>
    /\ UNCHANGED <<is_json, log_clock, channel_open, receiver, arrived,
                   watchVars, filterVars, orchVars, engineVars,
                   startupVars, staleVars, loggerVars>>

LogInit ==
    /\ \E json \in BOOLEAN : LogStart(json)
    /\ WatchIdle
    /\ FilterIdle
    /\ OrchIdle
    /\ EngineIdle
    /\ StartupIdle
    /\ StaleIdle
    /\ LoggerIdle

LogNext ==
    \/ LogTick
    \/ Send
    \/ CloseChannel
    \/ WorkerRecv
    \/ WorkerDisconnected
    \/ WorkerTimeout
    \/ FlushCheck
    \/ FlushWrite

LogSpec == LogInit /\ [][LogNext]_vars

\* The flush task keeps running and time advances.
LogFairSpec ==
    /\ LogSpec
    /\ WF_vars(WorkerRecv \/ WorkerDisconnected \/ WorkerTimeout
                  \/ FlushCheck \/ FlushWrite)
    /\ WF_vars(LogTick)

OrchInit ==
    /\ WatchIdle
    /\ FilterIdle
    /\ LogIdle
    /\ EngineIdle
    /\ StartupIdle
    /\ StaleIdle
    /\ LoggerIdle
    /\ \E p \in OrchPaths, t \in Thresholds, l \in GrumpinessLevel,
          f \in CmdOutcomes, c \in ClippyRuns, s \in Sources,
          r \in RuleFiles, g \in GitAnswers :
            OrchStart(Call(p, t, l, f, c, s, r, g))

OrchNext ==
    \/ StepFmt
    \/ StepClippy
    \/ StepComplexity
    \/ StepRules
    \/ StepGit
    \/ StepReturn

OrchSpec == OrchInit /\ [][OrchNext]_vars

(***************************************************************************)
(* The extension filter applied to one path and one watch set.             *)
(***************************************************************************)
\* paths, each with the extension std::path::Path::extension documents for it
FilterSamples ==
    {[path |-> SrcBToml, ext |-> Some(<<"t", "o", "m", "l">>)],
     [path |-> SrcARs, ext |-> Some(<<"r", "s">>)],
     [path |-> TargetARs, ext |-> Some(<<"r", "s">>)],
     [path |-> SrcMakefile, ext |-> None],
     [path |-> <<"s", "/", ".", "r", "s">>, ext |-> None],
     [path |-> <<"s", "/", "a", ".">>, ext |-> Some(<<>>)],
     [path |-> <<"a", ".", "r", "s", "/">>, ext |-> Some(<<"r", "s">>)],
     [path |-> <<"a", ".", "r", "s", "/", ".">>, ext |-> Some(<<"r", "s">>)],
     [path |-> <<"a", ".", "r", "s", "/", "b">>, ext |-> None],
     [path |-> <<"a", ".", "t", ".", "r", "s">>, ext |-> Some(<<"r", "s">>)],
     [path |-> <<".", ".">>, ext |-> None],
     [path |-> <<>>, ext |-> None]}

\* watch-set entries, each with the entry without its leading dots
WatchEntries ==
    {[entry |-> DotRs, trimmed |-> <<"r", "s">>],
     [entry |-> DotToml, trimmed |-> <<"t", "o", "m", "l">>],
     [entry |-> <<"r", "s">>, trimmed |-> <<"r", "s">>],
     [entry |-> <<".", ".", "r", "s">>, trimmed |-> <<"r", "s">>],
     [entry |-> <<".">>, trimmed |-> <<>>],
     [entry |-> <<".", "t", ".", "r", "s">>, trimmed |-> <<"t", ".", "r", "s">>]}

FilterWatchSets ==
    {<<e.entry>> : e \in WatchEntries} \cup {<<DotRs, DotToml>>}

FilterInit ==
    /\ f_path \in {x.path : x \in FilterSamples}
    /\ f_watch \in FilterWatchSets
    /\ f_result = "idle"
    /\ WatchIdle
    /\ LogIdle
    /\ OrchIdle
    /\ EngineIdle
    /\ StartupIdle
    /\ StaleIdle
    /\ LoggerIdle

\* the loop body's `if is_relevant(path, &watch_extensions)`
ApplyFilter ==
    /\ f_result = "idle"
    /\ f_result' = IF is_relevant(f_path, f_watch)
                   THEN "processed" ELSE "discarded"
    /\ UNCHANGED <<f_path, f_watch, watchVars, logVars, orchVars, engineVars,
                   startupVars, staleVars, loggerVars>>

FilterNext == ApplyFilter

FilterSpec == FilterInit /\ [][FilterNext]_vars

(***************************************************************************)
(* The debounce scenario: qualifying events at t = 0 s, 2 s and 11 s.      *)
(***************************************************************************)
ScenarioSchedule == <<0, 2, 11>>

ScenarioTick ==
    /\ sent < Len(ScenarioSchedule) => clock < ScenarioSchedule[sent + 1]
    /\ Tick

ScenarioNotify ==
    /\ sent < Len(ScenarioSchedule)
    /\ clock = ScenarioSchedule[sent + 1]
    /\ \E ps \in EventPaths :
          /\ ps # <<>>
          /\ verdict[Head(ps)] = "relevant"
          /\ rx' = Append(rx, [paths |-> ps, at |-> clock])
    /\ sent' = sent + 1
    /\ UNCHANGED <<configVars, clock, running, pc, deadline, last_triggered,
                   now, path, message, lockVars, handled, invocations,
                   completed, stopped, filterVars, logVars, orchVars, engineVars,
                   startupVars, staleVars, loggerVars>>

ScenarioNext ==
    \/ ScenarioTick
    \/ ScenarioNotify
    \/ LoopCheck
    \/ RecvTimeout
    \/ RecvEvent
    \/ RunEnd
    \/ WriteLock
    \/ WriteStore
    \/ ReadLock
    \/ ReadUnlock

ScenarioSpec == Init /\ [][ScenarioNext]_vars


\* The sessions explored for termination are followed for ShutdownHorizon
\* seconds.  The Watch Loop thread and the presentation layer keep running, time
\* advances, the RwLock hands the lock to a waiting writer, and every
\* Orchestrator run returns.
ShutdownInit ==
    /\ WatchStart(MaxTime - ShutdownHorizon)
    /\ FilterIdle
    /\ LogIdle
    /\ OrchIdle
    /\ EngineIdle
    /\ StartupIdle
    /\ StaleIdle
    /\ LoggerIdle

FairSpec ==
    /\ ShutdownInit
    /\ [][Next]_vars
    /\ WF_vars(LoopCheck \/ RecvTimeout \/ RecvEvent \/ RunEnd \/ WriteStore)
    /\ SF_vars(WriteLock)
    /\ WF_vars(ReadUnlock)
    /\ WF_vars(Tick)

(***************************************************************************)
(* Properties of the watch session.                                        *)
(***************************************************************************)

\* C1: any two consecutive Orchestrator invocations of one watch session
\* start at least debounce_interval apart, whatever events arrive and
\* however long a run lasts.
InvocationsDebounced ==
    \A i \in 2..Len(invocations) :
        invocations[i].start - invocations[i - 1].start >= debounce_interval

TwoInvocations == Len(invocations) >= 2

\* C3: a qualifying event that arrives less than debounce_interval after
\* the last trigger never causes an invocation, also when it arrives
\* during a run and is received after the run: every invocation is caused
\* by an event that arrived at least debounce_interval after every trigger
\* that preceded its arrival.
LateEventsNeverTrigger ==
    \A i \in 1..Len(invocations) :
        \A j \in 1..(i - 1) :
            invocations[j].start <= invocations[i].arrived
                => invocations[i].arrived - invocations[j].start
                       >= debounce_interval

\* C4: an event that passes the ignore and extension filters is suppressed
\* by the debounce test only after an invocation has been made: the first
\* such event always triggers one.
FirstQualifyingEventTriggers ==
    (handled # None /\ handled[1].outcome \in {"debounced", "triggered"})
        => invocations # <<>>

TriggeredAtStartup ==
    /\ handled # None
    /\ handled[1].outcome = "triggered"
    /\ Len(invocations) = 1
    /\ invocations[1].start < debounce_interval

\* C5: no path that matches a configured ignore pattern is ever passed to
\* the Orchestrator.
MatchesIgnorePattern(p) ==
    \E k \in 1..Len(ignore_list) :
        /\ ignore_list[k] # BadRegex
        /\ \E i \in 1..(Len(p) - Len(ignore_list[k]) + 1) :
              SubSeq(p, i, i + Len(ignore_list[k]) - 1) = ignore_list[k]

IgnoredPathNeverAnalysed ==
    /\ \A i \in 1..Len(invocations) : ~MatchesIgnorePattern(invocations[i].path)
    /\ pc = "run" => ~MatchesIgnorePattern(path)

IgnoredWhileDebounceExpired ==
    /\ handled # None
    /\ handled[1].outcome = "ignored"
    /\ MatchesIgnorePattern(Head(handled[1].event.paths))
    /\ Extension(Head(handled[1].event.paths)) = Some(<<"r", "s">>)
    /\ clock - last_triggered >= debounce_interval

\* C7: once the running flag is cleared the Watch Loop terminates.  A loop
\* that was idle leaves within one polling wait (recv_timeout) unless an
\* event reaches it first; a run in flight is not cancelled: when the loop
\* exits, the last invocation has returned and its report is the stored
\* one.
Terminated == pc \in {"done", "panicked"}

IdleExitBounded ==
    (/\ ~running
     /\ stopped[1].pc \in {"loop", "recv"}
     /\ pc \in {"loop", "recv"}
     /\ handled = None)
        => clock <= stopped[1].at + recv_timeout

RunFinishedAtExit ==
    (pc = "done" /\ invocations # <<>>)
        => /\ completed = Report(invocations[Len(invocations)].path,
                                 Len(invocations))
           /\ state_message = completed

MessageIsLastReport == state_message = completed

\* C8, amended: the shared message is the report of the most recently
\* completed invocation in every state except those of the publish step
\* (from handle_file_changes returning to the release of the write lock);
\* only the Watch Loop's store changes it, and a store replaces the whole
\* string by the report just returned.
Publishing == pc \in {"lock", "store"}

MessageIsLastPublishedReport ==
    /\ [](~Publishing => state_message = completed)
    /\ [][state_message' # state_message
            => pc = "store" /\ state_message' = message]_vars

SecondReportReplacedFirst ==
    /\ Len(invocations) = 2
    /\ ~Publishing
    /\ pc # "run"
    /\ state_message = Report(invocations[2].path, 2)

\* C9: the write lock is held only for the store and never during an
\* Orchestrator run, so shared access can be had at any time during a run,
\* and what a reader gets is always a complete report: the stored string,
\* never one that is being replaced.
LockHeldOnlyToStore ==
    /\ write_locked => pc = "store"
    /\ pc = "run" => ~write_locked
    /\ ~(write_locked /\ readers > 0)
    /\ readers > 0 => ui_message # Torn /\ ui_message = state_message

ReaderDuringRun ==
    /\ pc = "run"
    /\ readers > 0
    /\ ui_message # EmptyString
(***************************************************************************)
(* Properties of the debounce scenario, the extension filter and the       *)
(* Buffered Log Sink.                                                      *)
(***************************************************************************)

\* C2: with qualifying events at t = 0 s, 2 s and 11 s and a 10 s debounce
\* window, invocations occur at t = 0 and t = 11 only, exactly two of them
\* once the three events have been handled, and each analyses the most
\* recent path pending when it is triggered.
ScenarioTwoInvocations ==
    /\ \A i \in 1..Len(invocations) :
          /\ invocations[i].start \in {0, 11}
          /\ invocations[i].path = Head(invocations[i].newest)
    /\ (sent = Len(ScenarioSchedule) /\ rx = <<>> /\ pc = "recv")
          => Len(invocations) = 2

\* C6: the extension filter passes a path exactly when the path has an
\* extension and that extension is some watch-set entry without its
\* leading dots: "toml" passes [".rs", ".toml"] and not [".rs"], and a path
\* without extension never passes.
ExpectedExtension(p) == (CHOOSE x \in FilterSamples : x.path = p).ext
ExpectedTrimmed(e) == (CHOOSE x \in WatchEntries : x.entry = e).trimmed

ExtensionFilterExact ==
    f_result # "idle"
        => ((f_result = "processed")
              <=> /\ ExpectedExtension(f_path) # None
                  /\ \E i \in 1..Len(f_watch) :
                        ExpectedTrimmed(f_watch[i]) = ExpectedExtension(f_path)[1])

TomlDiscardedByRsOnly ==
    /\ f_path = SrcBToml
    /\ f_watch = <<DotRs>>
    /\ f_result = "discarded"

\* C10: the lines written to the destination are, in order, the entries a
\* prefix of the channel's arrival sequence: flushed in arrival order, none
\* written twice.
WrittenIsPrefixOfArrival ==
    /\ Len(written) <= Len(arrived)
    /\ \A i \in 1..Len(written) : written[i][2] = arrived[i]

TwoProducersFlushed ==
    /\ Len(written) >= 2
    /\ written[1][2].from # written[2][2].from


\* C11: when every producer is dropped the flush task writes everything it
\* received or that is still queued before it terminates: once the task has
\* ended, the destination holds every entry sent, in order, once each.
ClosedChannelDrained ==
    worker_pc = "exit" => written = SerializeAll(arrived, is_json)

\* C12: while the channel stays open no received entry is dropped: an entry
\* in the flush task's buffer is written at the latest flush_interval +
\* select_timeout after the later of the previous flush and its receipt;
\* every received entry is in the buffer until it is written, and a
\* non-empty buffer is eventually written out (as long as the channel is
\* open and the time explored has not run out), even when no further entry
\* arrives.
IsWritten(n) == \E i \in 1..Len(written) : written[i][2].n = n

IsBuffered(n) == \E i \in 1..Len(buffer) : buffer[i].n = n

FlushedInTime ==
    channel_open =>
        \A i \in 1..Len(buffer) :
            log_clock <= Max({last_flush, buffered_at[i]})
                         + flush_interval + select_timeout

ReceivedIsHeldOrWritten ==
    /\ Len(buffered_at) = Len(buffer)
    /\ \A n \in 1..(Len(arrived) - Len(receiver)) :
          IsBuffered(n) \/ IsWritten(n)
    /\ \A n \in 1..Len(arrived) : ~(IsBuffered(n) /\ IsWritten(n))

NoEntryDropped ==
    /\ [](FlushedInTime /\ ReceivedIsHeldOrWritten)
    /\ buffer # <<>>
          ~> (buffer = <<>> \/ ~channel_open \/ log_clock = MaxLogTime)

FlushedWithoutFurtherEntry ==
    /\ channel_open
    /\ worker_pc = "select"
    /\ Len(arrived) = 1
    /\ IsWritten(1)
    /\ last_flush >= flush_interval

MessagesOf(buf, st) ==
    {i \in 1..Len(buf) : buf[i].step = st /\ ~IsNewLine(buf[i])}

HasAttempted(st) == \E i \in 1..Len(attempted) : attempted[i] = st

AllSteps == <<"fmt", "clippy", "complexity", "rules", "git">>

\* C14: the five steps are attempted in their fixed order whatever fails: no
\* invocation is cut short, a finished one has attempted all five and
\* returned a report, and a source file that cannot be read or parsed
\* leaves a message of the complexity step in the error buffer.
StepsNeverAbort ==
    /\ step # "panicked"
    /\ attempted = SubSeq(AllSteps, 1, Len(attempted))
    /\ step = "done" => (attempted = AllSteps /\ report # None)
    /\ (HasAttempted("complexity") /\ call.source.kind # "parsed")
          => MessagesOf(error_messages, "complexity") # {}

\* C15: no analysis error ends the Watch Loop: the loop never stops on an
\* event it answered by invoking the Orchestrator.
AnalysisErrorKeepsLoopAlive ==
    ~(/\ pc = "panicked"
      /\ handled # None
      /\ handled[1].outcome = "triggered")

\* C16: a rule file that exists but is not well-formed (invalid TOML, no
\* 'rules' array, a malformed rule record) makes the rules step record one
\* error and no warning, and the invocation goes on to the metadata step.
MalformedRulesRecorded ==
    (/\ call.rule_file.kind \in {"invalid_toml", "no_rules_array",
                                 "malformed_rule"}
     /\ HasAttempted("rules"))
        => /\ step \in {"git", "return", "done"}
           /\ Cardinality(MessagesOf(error_messages, "rules")) = 1
           /\ MessagesOf(warning_messages, "rules") = {}

\* C17: once the formatter step is taken, a formatter that was spawned and
\* exited with status zero has left the success message in the info buffer
\* and nothing in the error buffer; one that exited non-zero or could not
\* be spawned has left a message in the error buffer and none in the info
\* buffer.
FormatterOutcomeReported ==
    HasAttempted("fmt") =>
        IF call.fmt = "success"
        THEN /\ Cardinality(MessagesOf(info_messages, "fmt")) = 1
             /\ MessagesOf(error_messages, "fmt") = {}
        ELSE /\ Cardinality(MessagesOf(error_messages, "fmt")) = 1
             /\ MessagesOf(info_messages, "fmt") = {}

\* the stderr holds a location marker followed by the exact path or by a
\* suffix of the path that starts with "src/"
MentionsPath(p, std_err) ==
    \/ Contains(std_err, Marker \o p)
    \/ \E k \in 1..(Len(p) - Len(SrcSlash) + 1) :
          /\ SubSeq(p, k, k + Len(SrcSlash) - 1) = SrcSlash
          /\ Contains(std_err, Marker \o SubSeq(p, k, Len(p)))

\* C18: once the linter step is taken with a linter that was spawned:
\* success leaves one message in the info buffer; a failure whose stderr
\* mentions the changed path leaves one message in the warning buffer; a
\* failure that does not mention it leaves nothing in any buffer.
LinterThreeOutcomes ==
    (HasAttempted("clippy") /\ call.clippy.outcome # "spawn_error")
        => LET n_info == Cardinality(MessagesOf(info_messages, "clippy"))
               n_warn == Cardinality(MessagesOf(warning_messages, "clippy"))
               n_err == Cardinality(MessagesOf(error_messages, "clippy"))
           IN  IF call.clippy.outcome = "success"
               THEN n_info = 1 /\ n_warn = 0 /\ n_err = 0
               ELSE IF MentionsPath(call.args.path, call.clippy.stderr)
               THEN n_info = 0 /\ n_warn = 1 /\ n_err = 0
               ELSE n_info = 0 /\ n_warn = 0 /\ n_err = 0

\* the lines of one kind the complexity step pushed for the i-th function
LinesFor(kind, i) ==
    {j \in MessagesOf(warning_messages, "complexity") :
        warning_messages[j].text = kind /\ warning_messages[j].args[2] = i}

\* C19: once the complexity step has run on a parsed file, each function
\* has exactly one complexity line iff its cyclomatic complexity exceeds the
\* configured max_complexity, and exactly one size line iff its
\* lines_of_code exceeds the configured max_function_size, for every value
\* of the metrics; the step puts nothing in the error buffer.
ComplexityLinesExact ==
    (HasAttempted("complexity") /\ call.source.kind = "parsed")
        => /\ \A i \in 1..Len(call.source.metrics) :
                LET m == call.source.metrics[i]
                IN  /\ Cardinality(LinesFor("complexity::warning", i)) =
                         IF m.cyclomatic_complexity
                                > call.config.max_complexity
                         THEN 1 ELSE 0
                    /\ Cardinality(LinesFor("function_size::warning", i)) =
                         IF m.lines_of_code > call.config.max_function_size
                         THEN 1 ELSE 0
           /\ MessagesOf(error_messages, "complexity") = {}

\* the pieces of a buffer are in step order
InStepOrder(buf) ==
    \A i, j \in 1..Len(buf) :
        i < j => StepRank[buf[i].step] <= StepRank[buf[j].step]

\* C20: the report returned is info + warning + error, each buffer holds
\* its messages in step order, and every line of the report holds one
\* message: no two messages share a line.
ReportIsLinePerMessage ==
    step = "done" =>
        /\ report = Some(info_messages \o warning_messages
                         \o error_messages)
        /\ InStepOrder(info_messages)
        /\ InStepOrder(warning_messages)
        /\ InStepOrder(error_messages)
        /\ \A k \in 1..Len(Lines(report[1])) :
              Len(Lines(report[1])[k]) <= 1

\* the invocation is over: it returned its report, or a step panicked
Ended == step \in {"done", "panicked"}

\* the lines the log was given at a level, in the order it was given them
LoggedAt(level, buf) ==
    LET IsLineAt(e) ==
            /\ e.level = level
            /\ \E k \in 1..Len(Lines(buf)) : Lines(buf)[k] = e.message
        kept == SelectSeq(logged, IsLineAt)
    IN  [i \in 1..Len(kept) |-> kept[i].message]

\* C21: when an invocation is over, the log has been given every line of
\* the info buffer at Info, every line of the warning buffer at Warn and
\* every line of the error buffer at Error, each once and in buffer order.
EveryBufferLineMirrored ==
    Ended => /\ LoggedAt("Info", info_messages) = Lines(info_messages)
             /\ LoggedAt("Warn", warning_messages) = Lines(warning_messages)
             /\ LoggedAt("Error", error_messages) = Lines(error_messages)

\* an invocation that returns has mirrored its three buffers
ReturnedMirrored == step = "panicked" \/ EveryBufferLineMirrored

\* the locals after the steps st[1], st[2], ... of the invocation c
RECURSIVE RunSteps(_, _, _)
RunSteps(c, st, b) ==
    IF st = <<>> \/ b.panic THEN b
    ELSE RunSteps(c, Tail(st), Effect(Head(st), c, b))

\* the locals of the invocation that differs from the present one only in
\* its grumpiness level, after the same steps
TwinLocals(level) ==
    LET twin == [call EXCEPT !.args.grumpiness_level = level]
        b == RunSteps(twin, attempted, Entered)
    IN  IF step = "done" THEN Mirror(b) ELSE b

\* which step pushed which message or line break, wording left out
Shape(buf) == [i \in 1..Len(buf) |-> <<buf[i].step, buf[i].text>>]

\* the levels of the entries logged and the shapes of their lines
LogShape(entries) ==
    [i \in 1..Len(entries) |->
        <<entries[i].level, Shape(entries[i].message)>>]

\* C22: the grumpiness level selects wording only: when an invocation is
\* over, the invocation that differs only in its level has taken the same
\* steps with the same outcome (panicked or not, complexity passed or
\* failed) and its three buffers and its log hold the same number of
\* messages, pushed by the same steps at the same places.
ToneIsPresentationOnly ==
    Ended =>
        \A level \in GrumpinessLevel \ {call.args.grumpiness_level} :
            LET t == TwinLocals(level)
                ComplexityResult(l) ==
                    analyze_file_complexity(
                        call.source, l, call.args.max_function_size,
                        call.args.max_cyclomatic_complexity).result
            IN  /\ t.panic = (step = "panicked")
                /\ ComplexityResult(level)
                      = ComplexityResult(call.args.grumpiness_level)
                /\ Shape(t.info) = Shape(info_messages)
                /\ Shape(t.warning) = Shape(warning_messages)
                /\ Shape(t.error) = Shape(error_messages)
                /\ LogShape(t.logged) = LogShape(logged)

\* a rude invocation has returned with level-worded messages of the
\* linter, the complexity and the metadata steps, which the mild one words
\* differently
RudeAndMildDiffer ==
    /\ step = "done"
    /\ call.args.grumpiness_level = "Rude"
    /\ MessagesOf(warning_messages, "clippy") # {}
    /\ MessagesOf(warning_messages, "complexity") # {}
    /\ MessagesOf(info_messages, "git") # {}
    /\ TwinLocals("Mild").warning # warning_messages
    /\ TwinLocals("Mild").info # info_messages

(***************************************************************************)
(* Properties of the Complexity Engine.                                    *)
(***************************************************************************)
\* the places of a body: the statements, their children, and so on, each
\* named by the indexes that lead to it
RECURSIVE Places(_)
Places(nodes) ==
    UNION {{<<i>>} \cup {<<i>> \o q : q \in Places(nodes[i].children)} :
              i \in 1..Len(nodes)}

RECURSIVE NodeAt(_, _)
NodeAt(nodes, q) ==
    IF Len(q) = 1 THEN nodes[q[1]]
    ELSE NodeAt(nodes[q[1]].children, Tail(q))

\* the nodes the place q lies inside
Enclosing(nodes, q) ==
    {NodeAt(nodes, SubSeq(q, 1, k)) : k \in 1..(Len(q) - 1)}

\* the places of a body that are not inside a node of the given kind
Outside(kind, stmts) ==
    {q \in Places(stmts) : \A n \in Enclosing(stmts, q) : n.kind # kind}

IsBranch(node) == node.kind \in {"if", "match", "while", "for", "loop"}

\* the top-level functions of the file, in source order
FnItems ==
    LET IsFn(item) == item.kind = "fn"
    IN  SelectSeq(e_file, IsFn)

\* C23: the cyclomatic complexity of a function is 1 plus the number of
\* branching constructs (if, match, while, for, loop) of its body that are
\* not inside a closure, at any depth: 1 without any, N + 1 with N at the
\* top level, a match counting once whatever its arms; it is at least 1.
ComplexityIsOnePlusBranches ==
    e_metrics # None =>
        \A i \in 1..Len(e_metrics[1]) :
            LET stmts == FnItems[i].stmts
                branches == {q \in Outside("closure", stmts) :
                                IsBranch(NodeAt(stmts, q))}
            IN  /\ e_metrics[1][i].cyclomatic_complexity
                      = 1 + Cardinality(branches)
                /\ e_metrics[1][i].cyclomatic_complexity >= 1

\* a function of three branching statements has been given complexity 4
ThreeBranchesAnalysed ==
    /\ e_metrics # None
    /\ e_file = <<FnItem("f", <<Leaf("if"), Leaf("match"), Leaf("loop")>>)>>
    /\ e_metrics[1][1].cyclomatic_complexity = 4

\* a body with the children of every node of the given kind removed
RECURSIVE Emptied(_, _)
Emptied(kind, nodes) ==
    [i \in 1..Len(nodes) |->
        IF nodes[i].kind = kind THEN Leaf(kind)
        ELSE Node(nodes[i].kind, Emptied(kind, nodes[i].children))]

\* the number of branching constructs the place q is, or lies inside
DepthAt(stmts, q) ==
    Cardinality({k \in 1..Len(q) : IsBranch(NodeAt(stmts, SubSeq(q, 1, k)))})

\* the complexity, the nesting depth and the return count of the i-th
\* function are those of its body with the nodes of the kind emptied
IgnoresInside(kind, i) ==
    LET f == FnItems[i]
        emptied == analyze_function(
                       [f EXCEPT !.stmts = Emptied(kind, f.stmts)])
    IN  /\ e_metrics[1][i].cyclomatic_complexity
              = emptied.cyclomatic_complexity
        /\ e_metrics[1][i].max_nesting_depth = emptied.max_nesting_depth
        /\ e_metrics[1][i].return_count = emptied.return_count

\* C24: closure bodies are never entered: what a closure holds adds
\* nothing to the complexity, the nesting depth or the return count of the
\* function around it (the depth and the return count are those of the
\* places outside closures), and a function that holds only a closure with
\* five branches in it has complexity 1.
ClosuresNotEntered ==
    e_metrics # None =>
        \A i \in 1..Len(e_metrics[1]) :
            LET stmts == FnItems[i].stmts
                outside == Outside("closure", stmts)
            IN  /\ IgnoresInside("closure", i)
                /\ e_metrics[1][i].return_count
                      = Cardinality({q \in outside :
                                        NodeAt(stmts, q).kind = "return"})
                /\ e_metrics[1][i].max_nesting_depth
                      = Max({0} \cup {DepthAt(stmts, q) : q \in outside})
                /\ stmts = <<Node("closure", AllBranching)>>
                      => e_metrics[1][i].cyclomatic_complexity = 1

\* the function that holds only a closure with five branches was analysed
ClosureOfFiveBranchesAnalysed ==
    /\ e_metrics # None
    /\ e_file = <<FnItem("f", <<Node("closure", AllBranching)>>)>>
    /\ e_metrics[1][1].cyclomatic_complexity = 1
    /\ e_metrics[1][1].max_nesting_depth = 0

\* C25: the bodies of functions declared inside a function are not
\* entered: what they hold adds nothing to the complexity, the nesting
\* depth or the return count of the function around them.
NestedFunctionsNotEntered ==
    e_metrics # None =>
        \A i \in 1..Len(e_metrics[1]) : IgnoresInside("fn", i)

\* C26: analyze_file returns one entry per top-level function of the file,
\* in source order, each the metrics of that function; an item that is not
\* a function (an impl block with its methods, a module, a struct) gives
\* no entry.
OneEntryPerTopLevelFunction ==
    e_metrics # None =>
        LET fns == {j \in 1..Len(e_file) : e_file[j].kind = "fn"}
        IN  /\ Len(e_metrics[1]) = Cardinality(fns)
            /\ \A j \in fns :
                  e_metrics[1][Cardinality({i \in fns : i <= j})]
                      = analyze_function(e_file[j])

\* a file of an impl block with a method, then two functions, was analysed
ImplThenTwoFunctionsAnalysed ==
    /\ e_metrics # None
    /\ Len(e_file) = 3
    /\ e_file[1].kind = "impl" /\ e_file[1].items # <<>>
    /\ e_file[2].kind = "fn" /\ e_file[3].kind = "fn"
    /\ e_file[2].name # e_file[3].name
    /\ Len(e_metrics[1]) = 2
    /\ e_metrics[1][1].name = e_file[2].name
    /\ e_metrics[1][2].name = e_file[3].name

(***************************************************************************)
(* Properties of the Rule Engine.                                          *)
(***************************************************************************)
IsEnabled(rule) == rule.enabled

IsRecognized(rule) == rule.name \in {"no_todo_comments", "forbid_word"}

\* C27: an enabled rule of unrecognized name makes apply_rules fail and
\* stop: the result is an error, it holds none of the violations found
\* before that rule, and no rule after it is evaluated.
UnknownRuleFailsFast ==
    r_result # None =>
        LET unknown == {i \in 1..Len(r_rules) :
                           IsEnabled(r_rules[i]) /\ ~IsRecognized(r_rules[i])}
        IN  unknown # {} =>
                /\ ~r_result[1].ok
                /\ r_result[1].messages = <<>>
                /\ r_result[1].evaluated
                      = SelectSeq(SubSeq(r_rules, 1, Min(unknown)), IsEnabled)

\* a violation was found, then an unknown rule was met
UnknownAfterViolation ==
    /\ r_result # None
    /\ r_rules = <<Rule("no_todo_comments", TRUE, None),
                   Rule("max_depth", TRUE, None)>>
    /\ r_source = TodoText
    /\ ~r_result[1].ok

\* the text holds t, o, d, o in a row, each in either letter case
HasTodoInAnyCase(s) ==
    \E i \in 1..(Len(s) - 3) :
        /\ s[i] \in {"t", "T"}
        /\ s[i + 1] \in {"o", "O"}
        /\ s[i + 2] \in {"d", "D"}
        /\ s[i + 3] \in {"o", "O"}

\* C28: an enabled no_todo_comments rule yields a violation if and only if
\* the source text holds "todo" in some letter case ("TODO", "todo",
\* "ToDo", ...): a successful apply_rules returns one such violation per
\* enabled no_todo_comments rule when it does, and none when it does not.
NoTodoFlagsAnyCase ==
    (r_result # None /\ r_result[1].ok) =>
        LET rules == {i \in 1..Len(r_rules) :
                         /\ IsEnabled(r_rules[i])
                         /\ r_rules[i].name = "no_todo_comments"}
            found == {k \in 1..Len(r_result[1].messages) :
                         r_result[1].messages[k]
                             = generate_message("no_todo_comments")}
        IN  /\ Cardinality(found)
                  = IF HasTodoInAnyCase(r_source) THEN Cardinality(rules)
                    ELSE 0
            /\ (rules # {} /\ HasTodoInAnyCase(r_source))
                  => ~r_result[1].successful

\* "ToDo" was flagged
MixedCaseTodoFlagged ==
    /\ r_result # None
    /\ r_rules = <<Rule("no_todo_comments", TRUE, None)>>
    /\ r_source = <<"T", "o", "D", "o">>
    /\ Len(r_result[1].messages) = 1

\* C29: disabled rules are skipped: none is evaluated, whatever its name
\* and option, and the result of apply_rules is the result for the list
\* with the disabled rules removed.
DisabledRulesSkipped ==
    r_result # None =>
        /\ r_result[1] = apply_rules(SelectSeq(r_rules, IsEnabled), r_source)
        /\ \A k \in 1..Len(r_result[1].evaluated) :
              IsEnabled(r_result[1].evaluated[k])

\* a disabled rule of unknown name and a disabled no_todo_comments rule
\* were applied to a text that holds "TODO"
DisabledUnknownAndTodoApplied ==
    /\ r_result # None
    /\ r_rules = <<Rule("max_depth", FALSE, None),
                   Rule("no_todo_comments", FALSE, None)>>
    /\ r_source = TodoText
    /\ r_result[1].ok
    /\ r_result[1].successful
    /\ r_result[1].messages = <<>>

\* the pieces a step pushed to a buffer, line breaks included
PushedBy(buf, st) == {i \in 1..Len(buf) : buf[i].step = st}

\* C30: a rules path that does not exist is no error: load returns "no
\* rules", and the rule step, once taken, has passed and has put nothing
\* in the warning buffer and nothing in the error buffer.
MissingRulesFileIsNoError ==
    (call.rule_file.kind = "missing" /\ HasAttempted("rules")) =>
        /\ load_custom_rules_from_toml(call.rule_file) = "none"
        /\ step # "panicked"
        /\ PushedBy(warning_messages, "rules") = {}
        /\ PushedBy(error_messages, "rules") = {}

\* an invocation on a text that holds "TODO" returned without the rules
\* file existing
ReturnedWithoutRulesFile ==
    /\ step = "done"
    /\ call.rule_file.kind = "missing"
    /\ call.source.text = TodoText
    /\ HasAttempted("rules")

\* the pieces of a buffer that hold the given text
Holding(buf, text) == {i \in 1..Len(buf) : buf[i].text = text}

\* C31: in the metadata step the two queries fail independently: a failed
\* staleness query leaves its own error message and the author query is
\* still made; a failed author query leaves its own error message and the
\* staleness line stays; an author query that finds no author still leaves
\* an author line, with an empty name.
MetadataQueriesIndependent ==
    (HasAttempted("git") /\ GitInspectorNew(call.args.path, call.git) = "ok")
        => LET n_stale == Cardinality(
                   Holding(info_messages, "git_is_stale::info"))
               n_author == Cardinality(
                   Holding(info_messages, "git_most_frequent_author::info"))
               n_stale_err == Cardinality(
                   Holding(error_messages,
                           "Failed to check if file is stale"))
               n_author_err == Cardinality(
                   Holding(error_messages,
                           "Failed to get most frequent author"))
           IN  /\ n_stale = IF call.git.stale = "true" THEN 1 ELSE 0
               /\ n_stale_err = IF call.git.stale = "error" THEN 1 ELSE 0
               /\ n_author = IF call.git.author # "error" THEN 1 ELSE 0
               /\ n_author_err = IF call.git.author = "error" THEN 1 ELSE 0
               /\ call.git.author = "none" =>
                     \A i \in Holding(info_messages,
                                      "git_most_frequent_author::info") :
                         info_messages[i].args[2] = ""

\* the staleness query failed and the author query found no author
StaleFailedAuthorEmpty ==
    /\ step = "done"
    /\ GitInspectorNew(call.args.path, call.git) = "ok"
    /\ call.git.stale = "error"
    /\ call.git.author = "none"
    /\ Holding(error_messages, "Failed to check if file is stale") # {}
    /\ Holding(info_messages, "git_most_frequent_author::info") # {}

(***************************************************************************)
(* Program start-up: the thread main spawns merges the command line with   *)
(* the configuration file, validates the result and starts the watch       *)
(* session (src/main.rs, src/cli.rs).                                      *)
(***************************************************************************)
DotMd == <<".", "m", "d">>
VendorSlash == <<"v", "e", "n", "d", "o", "r", "/">>

\* struct CliArgs, without config_file: main consumes it to load the file
CliArgs(g, v, w, i, s, c, r, git, f) ==
    [grumpiness_level |-> g, verbose |-> v, watch_files |-> w,
     ignore_patterns |-> i, max_function_size |-> s, max_complexity |-> c,
     custom_rules |-> r, git_integration |-> git, rules_file |-> f]

\* struct FileConfig, every field an Option as from_sources reads it
FileConfig(g, v, w, i, s, c, r, git, f) ==
    [grumpiness_level |-> g, verbose |-> v, watch_files |-> w,
     ignore_patterns |-> i, max_function_size |-> s, max_complexity |-> c,
     custom_rules |-> r, git_integration |-> git, rules_file |-> f]

\* Option::or_else, Option::unwrap_or, and file.as_ref().and_then(|f| f.x)
OrElse(a, b) == IF a # None THEN a ELSE b
UnwrapOr(a, default) == IF a # None THEN a[1] ELSE default
FileField(file, field) == IF file = None THEN None ELSE file[1][field]

\* if !cli.x.is_empty() { Some(cli.x.clone()) } else { file ... x.clone() }
GivenList(list, file, field) ==
    IF list # <<>> THEN Some(list) ELSE FileField(file, field)

FileFirst(a, b) == OrElse(b, a)
\* cli.x.or_else(|| file.as_ref().and_then(|f| f.x))
CliFirst(a, b) == OrElse(a, b)

from_sources(cli, file) ==
    [grumpiness_level |->
        UnwrapOr(CliFirst(cli.grumpiness_level,
                          FileField(file, "grumpiness_level")), "Mild"),
     verbose |->
        cli.verbose \/ UnwrapOr(FileField(file, "verbose"), FALSE),
     watch_files |->
        UnwrapOr(GivenList(cli.watch_files, file, "watch_files"),
                 <<DotRs, DotToml>>),
     ignore_patterns |->
        UnwrapOr(GivenList(cli.ignore_patterns, file, "ignore_patterns"),
                 <<TargetSlash>>),
     max_function_size |->
        UnwrapOr(CliFirst(cli.max_function_size,
                          FileField(file, "max_function_size")), 32),
     max_complexity |->
        UnwrapOr(CliFirst(cli.max_complexity,
                          FileField(file, "max_complexity")), 32),
     custom_rules |->
        UnwrapOr(CliFirst(cli.custom_rules,
                          FileField(file, "custom_rules")), "rules.toml"),
     git_integration |->
        cli.git_integration
            \/ UnwrapOr(FileField(file, "git_integration"), FALSE),
     rules_file |->
        UnwrapOr(CliFirst(cli.rules_file, FileField(file, "rules_file")),
                 "my_custom_rules.toml")]

validate_without_complexity(config) ==
    IF config.max_function_size = 0 THEN "ValueTooSmall"
    ELSE IF config.watch_files = <<>> THEN "MissingWatchFiles"
    ELSE "Ok"
\* MergedConfig::validate: "Ok" or the ConfigError it returns
validate(config) ==
    IF config.max_function_size = 0 THEN "ValueTooSmall"
    ELSE IF config.max_complexity = 0 THEN "ValueTooSmall"
    ELSE IF config.watch_files = <<>> THEN "MissingWatchFiles"
    ELSE "Ok"

\* The watch session before start_watching is called: no channel, no
\* watcher, no loop.  setup_shutdown has already installed the Ctrl-C
\* handler and set the running flag.
NotStarted ==
    /\ watch_extensions = <<>>
    /\ ignore_list = <<>>
    /\ verdict = [p \in FirstPaths |-> "none"]
    /\ clock = 0
    /\ running = TRUE
    /\ rx = <<>>
    /\ pc = "unstarted"
    /\ deadline = 0
    /\ last_triggered = 0
    /\ now = 0
    /\ path = NoPath
    /\ message = EmptyString
    /\ state_message = EmptyString
    /\ write_locked = FALSE
    /\ readers = 0
    /\ ui_message = EmptyString
    /\ sent = 0
    /\ handled = None
    /\ invocations = <<>>
    /\ completed = EmptyString
    /\ stopped = None

\* let merged_config = cli::MergedConfig::from_sources(cli, file_config);
FromSources ==
    /\ main_pc = "merge"
    /\ merged_config' = Some(from_sources(cli_args, file_config))
    /\ main_pc' = "validate"
    /\ UNCHANGED <<cli_args, file_config, validated, watchVars, filterVars,
                   logVars, orchVars, engineVars, staleVars, loggerVars>>

\* if let Err(e) = merged_config.validate() {
\*     run_flag.store(false, Ordering::SeqCst); return; }
Validate ==
    /\ main_pc = "validate"
    /\ validated' = validate(merged_config[1])
    /\ IF validated' = "Ok"
          THEN /\ main_pc' = "start"
               /\ UNCHANGED running
          ELSE /\ main_pc' = "failed"
               /\ running' = FALSE
    /\ UNCHANGED <<cli_args, file_config, merged_config, configVars, clock,
                   rx, pc, deadline, last_triggered, now, path, message,
                   lockVars, histVars, filterVars, logVars, orchVars,
                   engineVars, staleVars, loggerVars>>

\* watcher::start_watching up to the head of its loop: the channel and the
\* watcher exist, the configuration is cloned, last_triggered is seeded.
StartWatching ==
    /\ main_pc = "start"
    /\ watch_extensions' = merged_config[1].watch_files
    /\ ignore_list' = merged_config[1].ignore_patterns
    /\ verdict' = [p \in FirstPaths |->
                     FilterVerdict(p, merged_config[1].ignore_patterns,
                                   merged_config[1].watch_files)]
    /\ last_triggered' = InitialLastTriggered(clock)
    /\ pc' = "loop"
    /\ main_pc' = "watching"
    /\ UNCHANGED <<cli_args, file_config, merged_config, validated, clock,
                   running, rx, deadline, now, path, message, lockVars,
                   histVars, filterVars, logVars, orchVars, engineVars, staleVars, loggerVars>>

\* RecommendedWatcher::new(..)? or watcher.watch(Path::new("src"), ..)?
\* fails: start_watching returns the error and main only prints it.
StartWatchingFails ==
    /\ main_pc = "start"
    /\ main_pc' = "watcher_failed"
    /\ UNCHANGED <<cli_args, file_config, merged_config, validated,
                   watchVars, filterVars, logVars, orchVars, engineVars, staleVars, loggerVars>>

\* The command lines and configuration files the start-up is checked on:
\* in the first family the level, the limits and the watch set vary, in
\* the second the remaining options.
ConfigInputs ==
    \/ \E g \in {None, Some("Rude")}, gf \in {None, Some("Sarcastic")},
          s \in {None, Some(0), Some(8)}, sf \in {None, Some(50)},
          c \in {None, Some(0), Some(8)}, cf \in {None, Some(0), Some(5)},
          w \in {<<>>, <<DotRs>>}, wf \in {None, Some(<<>>), Some(<<DotMd>>)},
          present \in BOOLEAN :
          /\ cli_args = CliArgs(g, FALSE, w, <<>>, s, c, None, FALSE, None)
          /\ file_config =
                IF present
                THEN Some(FileConfig(gf, None, wf, None, sf, cf, None, None,
                                     None))
                ELSE None
    \/ \E v \in BOOLEAN, vf \in {None, Some(FALSE), Some(TRUE)},
          i \in {<<>>, <<VendorSlash>>},
          if \in {None, Some(<<TargetSlash, VendorSlash>>)},
          r \in {None, Some("cli_rules.toml")},
          rf \in {None, Some("file_rules.toml")},
          git \in BOOLEAN, gitf \in {None, Some(FALSE), Some(TRUE)},
          f \in {None, Some("cli_extra.toml")},
          ff \in {None, Some("file_extra.toml")} :
          /\ cli_args = CliArgs(None, v, <<>>, i, None, None, r, git, f)
          /\ file_config =
                Some(FileConfig(None, vf, None, if, None, None, rf, gitf, ff))

ConfigInit ==
    /\ NotStarted
    /\ FilterIdle
    /\ LogIdle
    /\ OrchIdle
    /\ EngineIdle
    /\ StaleIdle
    /\ LoggerIdle
    /\ merged_config = None
    /\ validated = None
    /\ main_pc = "merge"
    /\ ConfigInputs

ConfigNext ==
    \/ FromSources
    \/ Validate
    \/ StartWatching
    \/ StartWatchingFails

ConfigSpec == ConfigInit /\ [][ConfigNext]_vars

\* The whole start: the start-up thread, then the watch session it starts,
\* with the notification producer and Ctrl-C around it.
StartupInit ==
    /\ NotStarted
    /\ FilterIdle
    /\ LogIdle
    /\ OrchIdle
    /\ EngineIdle
    /\ StaleIdle
    /\ LoggerIdle
    /\ merged_config = None
    /\ validated = None
    /\ main_pc = "merge"
    /\ \E s \in {None, Some(0)}, c \in {None, Some(0)},
          wf \in {None, Some(<<>>)} :
          /\ cli_args = CliArgs(None, FALSE, <<>>, <<>>, s, c, None, FALSE,
                                None)
          /\ file_config =
                Some(FileConfig(None, None, wf, None, None, None, None, None,
                                None))

StartupNext ==
    \/ FromSources
    \/ Validate
    \/ StartWatching
    \/ StartWatchingFails
    \/ Tick
    \/ Notify
    \/ Shutdown
    \/ LoopCheck
    \/ RecvTimeout
    \/ RecvEvent
    \/ RunEnd
    \/ RunPanics
    \/ WriteLock
    \/ WriteStore

StartupSpec == StartupInit /\ [][StartupNext]_vars

\* C32: a merged configuration with max_function_size = 0, max_complexity
\* = 0 or an empty watch set makes validate return an error, after which
\* the running flag is cleared, start_watching is never called and no
\* Orchestrator invocation is ever made; a configuration with both limits
\* above zero and a non-empty watch set validates successfully.
ValidationFailureIsFatal ==
    merged_config # None =>
        LET m == merged_config[1]
            invalid == \/ m.max_function_size = 0
                       \/ m.max_complexity = 0
                       \/ m.watch_files = <<>>
        IN  IF invalid
            THEN /\ main_pc \in {"validate", "failed"}
                 /\ pc = "unstarted"
                 /\ invocations = <<>>
                 /\ main_pc = "failed" =>
                       /\ validated \in {"ValueTooSmall", "MissingWatchFiles"}
                       /\ ~running
            ELSE /\ main_pc # "failed"
                 /\ main_pc # "validate" => validated = "Ok"

ZeroComplexityRejected ==
    /\ main_pc = "failed"
    /\ merged_config[1].max_function_size > 0
    /\ merged_config[1].max_complexity = 0
    /\ merged_config[1].watch_files # <<>>
    /\ ~running

RECURSIVE Relabelled(_, _, _)
Relabelled(from, to, nodes) ==
    [i \in 1..Len(nodes) |->
        Node(IF nodes[i].kind = from THEN to ELSE nodes[i].kind,
             Relabelled(from, to, nodes[i].children))]

MaxHunks == 2
SecondsPerDay == 86400

\* `/` on i64 rounds toward zero
TruncDiv(a, b) == IF a >= 0 THEN a \div b ELSE -((-a) \div b)

\* `age_days as u64 > stale_days`: a negative i64 becomes a u64 of at
\* least 2^63, which is above every stale_days of the model
AsU64Exceeds(x, days) == IF x >= 0 THEN x > days ELSE TRUE

\* let mut latest_time = 0; for hunk in blame.iter() { if time >
\* latest_time { latest_time = time; } }
RECURSIVE LatestTime(_, _, _)
LatestTime(hunks, i, latest_time) ==
    IF i > Len(hunks) THEN latest_time
    ELSE LatestTime(hunks, i + 1,
                    IF hunks[i] > latest_time THEN hunks[i]
                    ELSE latest_time)

\* the age in days, as the code computes it
AgeDays(hunks, t) == TruncDiv(t - LatestTime(hunks, 1, 0), SecondsPerDay)

\* Ok(stale) or the git2::Error of blame_file or find_commit
is_file_stale(blame, t, stale_days) ==
    IF ~blame.ok THEN [ok |-> FALSE, stale |-> FALSE]
    ELSE [ok |-> TRUE,
          stale |-> AsU64Exceeds(AgeDays(blame.hunks, t), stale_days)]

\* how long before `now` the commits of the blames were made; a negative
\* age is a commit whose time lies ahead of the clock
Ages ==
    {0, 3600, 6 * SecondsPerDay, 7 * SecondsPerDay - 1,
     7 * SecondsPerDay, 7 * SecondsPerDay + 3600,
     8 * SecondsPerDay - 1, 8 * SecondsPerDay, 9 * SecondsPerDay,
     -3600, -2 * SecondsPerDay}

StaleInit ==
    /\ WatchIdle
    /\ FilterIdle
    /\ LogIdle
    /\ OrchIdle
    /\ EngineIdle
    /\ StartupIdle
    /\ LoggerIdle
    /\ s_now \in {30 * SecondsPerDay, 1700000000}
    /\ s_days \in {1, 7}
    /\ s_stale = None
    /\ \/ s_hunks = [ok |-> FALSE, hunks |-> <<>>]
       \/ \E ages \in SeqsUpTo(Ages, MaxHunks) :
             s_hunks = [ok |-> TRUE,
                        hunks |-> [i \in 1..Len(ages) |-> s_now - ages[i]]]

IsFileStale ==
    /\ s_stale = None
    /\ s_stale' = Some(is_file_stale(s_hunks, s_now, s_days))
    /\ UNCHANGED <<s_now, s_hunks, s_days, watchVars, filterVars, logVars,
                   orchVars, engineVars, startupVars, loggerVars>>

StaleNext == IsFileStale

StaleSpec == StaleInit /\ [][StaleNext]_vars

\* C35: is_file_stale(path, d) answers true exactly when no commit of the
\* file's blame lies within the last d days, that is when the latest one
\* is more than d days old: with d = 7 a latest commit 7 days and some
\* hours old is stale, one less than 7 days old is not.
StaleExactlyBeyondWindow ==
    (s_stale # None /\ s_stale[1].ok) =>
        s_stale[1].stale
            = (\A i \in 1..Len(s_hunks.hunks) :
                  s_now - s_hunks.hunks[i] > s_days * SecondsPerDay)

\* the word occurs in the text, letter for letter
HasSubstring(s, word) ==
    \E k \in 0..(Len(s) - Len(word)) :
        \A j \in 1..Len(word) : s[k + j] = word[j]

\* C36: in a successful apply_rules every rule of the list is passed
\* through, each enabled forbid_word rule with an option yields a violation
\* exactly when the text holds the option letter for letter, an enabled
\* forbid_word rule without option yields none, and such a rule never
\* makes apply_rules fail.
ForbidWordExactSubstring ==
    r_result # None =>
        LET worded == {i \in 1..Len(r_rules) :
                          /\ IsEnabled(r_rules[i])
                          /\ r_rules[i].name = "forbid_word"
                          /\ r_rules[i].option # None}
            found == {k \in 1..Len(r_result[1].messages) :
                         r_result[1].messages[k]
                             = generate_message("forbid_word")}
        IN  IF r_result[1].ok
            THEN /\ r_result[1].evaluated = SelectSeq(r_rules, IsEnabled)
                 /\ Cardinality(found)
                       = Cardinality({i \in worded :
                                         HasSubstring(r_source,
                                                      r_rules[i].option[1])})
            ELSE \E i \in 1..Len(r_rules) :
                    IsEnabled(r_rules[i]) /\ ~IsRecognized(r_rules[i])

\* a forbid_word rule without option was passed over and the rule after it
\* found its violation
OptionlessForbidWordPassedOver ==
    /\ r_result # None
    /\ r_rules = <<Rule("forbid_word", TRUE, None),
                   Rule("no_todo_comments", TRUE, None)>>
    /\ r_source = TodoText
    /\ r_result[1].ok
    /\ r_result[1].messages = <<generate_message("no_todo_comments")>>

\* the rule is enabled and the text violates it
IsViolated(rule) ==
    /\ IsEnabled(rule)
    /\ \/ rule.name = "no_todo_comments" /\ HasTodoInAnyCase(r_source)
       \/ /\ rule.name = "forbid_word"
          /\ rule.option # None
          /\ HasSubstring(r_source, rule.option[1])

\* C37: when apply_rules returns successfully, all_passed is true if and
\* only if the list of violations is empty, and the list holds one message
\* per violated enabled rule, in the order of the rule list.
PassedIffNoViolations ==
    (r_result # None /\ r_result[1].ok) =>
        LET violated == SelectSeq(r_rules, IsViolated)
        IN  /\ r_result[1].successful = (r_result[1].messages = <<>>)
            /\ r_result[1].messages
                  = [k \in 1..Len(violated) |->
                        generate_message(violated[k].name)]

\* both rules of the list were violated, and reported in their order
TwoViolationsInOrder ==
    /\ r_result # None
    /\ r_rules = <<Rule("forbid_word", TRUE, Some(Word)),
                   Rule("no_todo_comments", TRUE, None)>>
    /\ r_source = TodoWordText
    /\ r_result[1].ok
    /\ ~r_result[1].successful
    /\ r_result[1].messages = <<generate_message("forbid_word"),
                                generate_message("no_todo_comments")>>

\* the loop takes the event at the head of the channel
Dequeues == rx # <<>> /\ rx' = Tail(rx)

\* C38: only the first path of an event is examined: an event whose first
\* path the ignore filter or the extension filter discards starts no
\* analysis, whatever its other paths are, an event without path does
\* nothing, and an analysis that starts is given the first path.
OnlyFirstPathExamined ==
    [][Dequeues =>
          LET paths == Head(rx).paths
          IN  /\ paths = <<>> =>
                    /\ pc' = "loop"
                    /\ UNCHANGED <<invocations, last_triggered, lockVars>>
              /\ (/\ paths # <<>>
                  /\ FilterVerdict(paths[1], ignore_list, watch_extensions)
                        # "relevant")
                    => (invocations' = invocations /\ pc' # "run")
              /\ invocations' # invocations =>
                    /\ invocations'[Len(invocations')].path = paths[1]
                    /\ path' = paths[1]]_vars

\* an event whose first path is ignored and whose second path is a watched
\* source file was handled, and nothing was analysed
IgnoredFirstPathHidesSecond ==
    /\ handled # None
    /\ handled[1].event.paths = <<TargetARs, SrcARs>>
    /\ FilterVerdict(SrcARs, ignore_list, watch_extensions) = "relevant"
    /\ handled[1].outcome = "ignored"
    /\ invocations = <<>>
    /\ pc = "loop"

\* what the loop body decides for the event at the head of the channel
\* without calling the Orchestrator
Discards(event) ==
    \/ event.paths = <<>>
    \/ FilterVerdict(event.paths[1], ignore_list, watch_extensions)
          # "relevant"
    \/ clock - last_triggered < debounce_interval

\* C39: handling an event that is discarded (no path, ignored path,
\* extension not watched, or inside the debounce window) changes neither
\* last_triggered nor the shared report and starts no invocation;
\* last_triggered changes only after an invocation, and becomes the time
\* taken just before that invocation started.
DiscardedEventsChangeNothing ==
    [][/\ (Dequeues /\ Discards(Head(rx))) =>
              /\ UNCHANGED <<last_triggered, state_message, invocations>>
              /\ pc' # "run"
       /\ last_triggered' # last_triggered =>
              /\ pc = "store"
              /\ invocations # <<>>
              /\ last_triggered' = invocations[Len(invocations)].start
              /\ invocations' = invocations]_vars

\* after one analysis that took time, a second event was discarded inside
\* the debounce window: last_triggered is still the start of the analysis
DebouncedAfterAnalysis ==
    /\ Len(invocations) = 1
    /\ handled # None
    /\ handled[1].outcome = "debounced"
    /\ last_triggered = invocations[1].start
    /\ clock > last_triggered
    /\ state_message = completed
    /\ completed # EmptyString
    /\ pc = "loop"

(***************************************************************************)
(* The global logger: initialize_logger of main, init_logger and log       *)
(* (src/main.rs, src/logger/core.rs).  As in the model of the Buffered Log *)
(* Sink, the flush task that init_buffer spawns stays alive: the log file  *)
(* can be opened and written.                                              *)
(***************************************************************************)
MaxCalls == 3

\* enum LogLevel
LogLevel == {"Info", "Warn", "Error", "Debug"}

\* struct Config of the logger, as read from logger_config.toml
LoggerConfig(log_type, file_name, min_level, to_file) ==
    [log_type |-> log_type, file_name |-> file_name,
     min_level |-> min_level, to_file |-> to_file]

\* Config::finalize
finalize(config) ==
    [log_type |-> UnwrapOr(config.log_type, "txt"),
     file_name |-> UnwrapOr(config.file_name, "log"),
     min_level |-> UnwrapOr(config.min_level, "info"),
     to_file |-> UnwrapOr(config.to_file, TRUE)]

\* the configuration initialize_logger builds when the file is missing
DefaultLoggerConfig ==
    LoggerConfig(Some("txt"), Some("grumpy_clippy_log"), Some("info"),
                 Some(FALSE))

\* what logger_config.toml holds when it can be read and parsed
LoggerFiles ==
    {LoggerConfig(t, None, m, f) :
        t \in {None, Some("json"), Some("xml")},
        m \in {None, Some("error")},
        f \in {None, Some(FALSE)}}

\* LogEntry::new(level, message); n tells the calls apart
LogEntry(n, level, text) == [n |-> n, level |-> level, message |-> text]

\* logger.config.log_type == "json"
IsJson(logger) == logger # None /\ logger[1].config.log_type = "json"

\* a logger that prints when none is installed
DestinationStdoutWhenNone(logger) ==
    IF logger = None THEN "stdout"
    ELSE IF logger[1].buffer THEN "channel"
    ELSE "stdout"

\* where log() takes an entry: nowhere while LOGGER holds None, to the
\* channel when the Logger has a buffer, else to standard output
Destination(logger) ==
    IF logger = None THEN "none"
    ELSE IF logger[1].buffer THEN "channel"
    ELSE "stdout"

\* log(level, message), called at position `at` of the program
Log(level, text, at) ==
    LET entry == LogEntry(Len(log_calls) + 1, level, text)
        to == Destination(global_logger)
    IN  /\ log_calls' = Append(log_calls, [entry |-> entry, at |-> at])
        /\ sender_sent' =
              IF to = "channel" THEN Append(sender_sent, entry)
              ELSE sender_sent
        /\ stdout' =
              IF to = "stdout"
              THEN Append(stdout, Serialize(entry, IsJson(global_logger)))
              ELSE stdout

LoggerInit ==
    /\ WatchIdle
    /\ FilterIdle
    /\ LogIdle
    /\ OrchIdle
    /\ EngineIdle
    /\ StartupIdle
    /\ StaleIdle
    /\ logger_config = None
    /\ global_logger = None
    /\ init_pc = "load"
    /\ worker = "none"
    /\ sender_sent = <<>>
    /\ stdout = <<>>
    /\ log_calls = <<>>

\* LoggerConfig::from_file("logger_config.toml").map(|c| c.finalize())
ConfigFound ==
    /\ init_pc = "load"
    /\ \E file \in LoggerFiles : logger_config' = Some(finalize(file))
    /\ init_pc' = "init"
    /\ UNCHANGED <<global_logger, worker, sender_sent, stdout, log_calls,
                   watchVars, filterVars, logVars, orchVars, engineVars,
                   startupVars, staleVars>>

\* .unwrap_or_else(|_| { info!("Logger config missing. Using default...");
\* LoggerConfig { .. to_file: Some(false) }.finalize() })
ConfigMissing ==
    /\ init_pc = "load"
    /\ Log("Info", "Logger config missing. Using default...", "load")
    /\ logger_config' = Some(finalize(DefaultLoggerConfig))
    /\ init_pc' = "init"
    /\ UNCHANGED <<global_logger, worker, watchVars, filterVars, logVars,
                   orchVars, engineVars, startupVars, staleVars>>

\* init_logger(logger_config): panics on an unknown log type when logging
\* to a file, else stores the Logger in LOGGER
InitLogger ==
    /\ init_pc = "init"
    /\ LET config == logger_config[1]
       IN  IF config.to_file /\ config.log_type \notin {"json", "txt"}
           THEN /\ init_pc' = "panicked"
                /\ UNCHANGED <<global_logger, worker>>
           ELSE /\ global_logger' =
                      Some([config |-> config, buffer |-> config.to_file])
                /\ worker' = IF config.to_file THEN "alive" ELSE "none"
                /\ init_pc' = "started"
    /\ UNCHANGED <<logger_config, sender_sent, stdout, log_calls, watchVars,
                   filterVars, logVars, orchVars, engineVars, startupVars,
                   staleVars>>

\* info!("GrumpyClippy started successfully!");
Started ==
    /\ init_pc = "started"
    /\ Log("Info", "GrumpyClippy started successfully!", "started")
    /\ init_pc' = "running"
    /\ UNCHANGED <<logger_config, global_logger, worker, watchVars,
                   filterVars, logVars, orchVars, engineVars, startupVars,
                   staleVars>>

\* a later info!, warning!, error! or debug! of any thread
LogCall ==
    /\ init_pc = "running"
    /\ Len(log_calls) < MaxCalls + 2
    /\ \E level \in LogLevel : Log(level, "later", "running")
    /\ UNCHANGED <<logger_config, global_logger, init_pc, worker, watchVars,
                   filterVars, logVars, orchVars, engineVars, startupVars,
                   staleVars>>

LoggerNext ==
    \/ ConfigFound
    \/ ConfigMissing
    \/ InitLogger
    \/ Started
    \/ LogCall

LoggerSpec == LoggerInit /\ [][LoggerNext]_vars

\* the entries of the calls made before, and after, init_logger returned
RECURSIVE EntriesOf(_, _)
EntriesOf(calls, early) ==
    IF calls = <<>> THEN <<>>
    ELSE (IF (Head(calls).at = "load") = early
          THEN <<Head(calls).entry>> ELSE <<>>)
         \o EntriesOf(Tail(calls), early)

====
